---------------------------- MODULE Spec2Model ----------------------------
(***************************************************************************)
(* A model of the command-language engine of the ziron shell               *)
(* (ziron-shell/src: parser.rs, command.rs, executor.rs, jobs.rs,          *)
(* shell.rs).                                                              *)
(*                                                                         *)
(* Strings are sequences of one-character strings, so that the scanners    *)
(* of the parser are modelled character by character.  Option<T> is a      *)
(* sequence of length 0 (None) or 1 (Some).  A Result is a record          *)
(* [k, v]: k = "ok" with the value v, k = "err" (an Err(_) return) or      *)
(* k = "panic" (the thread panics: an index or a slice out of range).      *)
(***************************************************************************)
EXTENDS Integers, Sequences, FiniteSets, TLC

(***************************************************************************)
(* Results and characters                                                  *)
(***************************************************************************)
Ok(v) == [k |-> "ok", v |-> v]

Err == [k |-> "err", v |-> <<>>]

Panic == [k |-> "panic", v |-> <<>>]

Digits == {"0", "1", "2", "3", "4", "5", "6", "7", "8", "9"}

Letters == {"a", "b", "c", "d", "e", "f", "g", "h", "i", "j", "k", "l", "m",
            "n", "o", "p", "q", "r", "s", "t", "u", "v", "w", "x", "y", "z",
            "A", "B", "C", "D", "E", "F", "G", "H", "I", "J", "K", "L", "M",
            "N", "O", "P", "Q", "R", "S", "T", "U", "V", "W", "X", "Y", "Z"}

\* the backquote character (the one character a string literal cannot hold)
BACKTICK == "<backquote>"

is_ascii_digit(c) == c \in Digits

is_alphanumeric(c) == c \in Digits \cup Letters

is_whitespace(c) == c \in {" ", "\t", "\n", "\r"}

RECURSIVE trim_start(_)
trim_start(s) ==
    IF s # <<>> /\ is_whitespace(Head(s)) THEN trim_start(Tail(s)) ELSE s

RECURSIVE trim_end(_)
trim_end(s) ==
    IF s # <<>> /\ is_whitespace(s[Len(s)])
    THEN trim_end(SubSeq(s, 1, Len(s) - 1))
    ELSE s

trim(s) == trim_end(trim_start(s))

starts_with(s, p) == Len(s) >= Len(p) /\ SubSeq(s, 1, Len(p)) = p

ends_with(s, p) ==
    Len(s) >= Len(p) /\ SubSeq(s, Len(s) - Len(p) + 1, Len(s)) = p

\* str::find: the 1-based position of the first occurrence of p in s at or
\* after position i, 0 when there is none
RECURSIVE find_from(_, _, _)
find_from(s, p, i) ==
    IF i + Len(p) - 1 > Len(s) THEN 0
    ELSE IF SubSeq(s, i, i + Len(p) - 1) = p THEN i
    ELSE find_from(s, p, i + 1)

find(s, p) == find_from(s, p, 1)

\* str::rfind: the 1-based position of the last occurrence of p in s, 0 when
\* there is none
RECURSIVE rfind_from(_, _, _)
rfind_from(s, p, i) ==
    IF i < 1 THEN 0
    ELSE IF SubSeq(s, i, i + Len(p) - 1) = p THEN i
    ELSE rfind_from(s, p, i - 1)

rfind(s, p) == rfind_from(s, p, Len(s) - Len(p) + 1)

contains(s, p) == find(s, p) # 0

RECURSIVE concat(_)
concat(ss) == IF ss = <<>> THEN <<>> ELSE Head(ss) \o concat(Tail(ss))

\* [String]::join
RECURSIVE join(_, _)
join(ss, sep) ==
    IF ss = <<>> THEN <<>>
    ELSE IF Len(ss) = 1 THEN ss[1]
    ELSE ss[1] \o sep \o join(Tail(ss), sep)


(***************************************************************************)
(* Decimal conversions (str::parse, to_string)                             *)
(***************************************************************************)
DigitChars == <<"0", "1", "2", "3", "4", "5", "6", "7", "8", "9">>

digit_value(c) == CHOOSE d \in 0..9 : DigitChars[d + 1] = c

all_digits(s) == s # <<>> /\ \A i \in 1..Len(s) : s[i] \in Digits

RECURSIVE digits_value(_)
digits_value(s) ==
    IF s = <<>> THEN 0
    ELSE 10 * digits_value(SubSeq(s, 1, Len(s) - 1)) + digit_value(s[Len(s)])

\* str::parse::<usize>() and ::<u32>(): an optional "+" and decimal digits.
\* The lines of the model hold numbers of at most 9 digits, which are within
\* the range of both types (and of the integers of the model checker).
parse_unsigned(s) ==
    LET d == IF s # <<>> /\ Head(s) = "+" THEN Tail(s) ELSE s
    IN  IF all_digits(d) /\ Len(d) <= 9 THEN <<digits_value(d)>> ELSE <<>>

\* str::parse::<i64>() and ::<i32>(): an optional sign and decimal digits
parse_signed(s) ==
    IF s # <<>> /\ Head(s) = "-"
    THEN IF all_digits(Tail(s)) /\ Len(s) <= 10
         THEN <<0 - digits_value(Tail(s))>> ELSE <<>>
    ELSE parse_unsigned(s)

\* the ends of i32
I32_MAX == 2147483647

I32_MIN == -2147483647 - 1

RECURSIVE strip_zeros(_)
strip_zeros(d) ==
    IF Len(d) > 1 /\ Head(d) = "0" THEN strip_zeros(Tail(d)) ELSE d

\* a <= b for two strings of digits of the same length
RECURSIVE digits_le(_, _)
digits_le(a, b) ==
    IF a = <<>> THEN TRUE
    ELSE IF digit_value(Head(a)) # digit_value(Head(b))
    THEN digit_value(Head(a)) < digit_value(Head(b))
    ELSE digits_le(Tail(a), Tail(b))

\* the digits d, without leading zeros, are a number of at most max, a
\* string of ten digits
fits(d, max) == Len(d) < 10 \/ (Len(d) = 10 /\ digits_le(d, max))

\* the value of -d for digits d that fit: the last digit is subtracted on
\* its own, so that no intermediate value is past the ends of i32
negated(d) ==
    0 - 10 * digits_value(SubSeq(d, 1, Len(d) - 1)) - digit_value(d[Len(d)])

\* str::parse::<i32>(): an optional sign and decimal digits, an error when
\* the value is not an i32
parse_i32(s) ==
    IF s # <<>> /\ Head(s) = "-"
    THEN IF all_digits(Tail(s))
            /\ fits(strip_zeros(Tail(s)),
                    <<"2", "1", "4", "7", "4", "8", "3", "6", "4", "8">>)
         THEN <<negated(strip_zeros(Tail(s)))>> ELSE <<>>
    ELSE IF s # <<>> /\ Head(s) = "+"
    THEN IF all_digits(Tail(s))
            /\ fits(strip_zeros(Tail(s)),
                    <<"2", "1", "4", "7", "4", "8", "3", "6", "4", "7">>)
         THEN <<digits_value(strip_zeros(Tail(s)))>> ELSE <<>>
    ELSE IF all_digits(s)
            /\ fits(strip_zeros(s),
                    <<"2", "1", "4", "7", "4", "8", "3", "6", "4", "7">>)
    THEN <<digits_value(strip_zeros(s))>> ELSE <<>>

RECURSIVE nat_to_string(_)
nat_to_string(n) ==
    IF n < 10 THEN <<DigitChars[n + 1]>>
    ELSE nat_to_string(n \div 10) \o <<DigitChars[(n % 10) + 1]>>

to_string(n) == IF n < 0 THEN <<"-">> \o nat_to_string(-n) ELSE nat_to_string(n)

(***************************************************************************)
(* Parser::split_by_pipes                                                  *)
(***************************************************************************)
\* one iteration of the scan over the characters of the line
split_step(st, ch) ==
    IF st.escape_next
    THEN [st EXCEPT !.current = Append(@, ch), !.escape_next = FALSE]
    ELSE IF ch = "\\" /\ ~st.in_single_quote
    THEN [st EXCEPT !.escape_next = TRUE, !.current = Append(@, ch)]
    ELSE IF ch = "'" /\ ~st.in_double_quote
    THEN [st EXCEPT !.in_single_quote = ~@, !.current = Append(@, ch)]
    ELSE IF ch = "\"" /\ ~st.in_single_quote
    THEN [st EXCEPT !.in_double_quote = ~@, !.current = Append(@, ch)]
    ELSE IF ch = "|" /\ ~st.in_single_quote /\ ~st.in_double_quote
    THEN [st EXCEPT !.parts = Append(@, trim(st.current)), !.current = <<>>]
    ELSE [st EXCEPT !.current = Append(@, ch)]

RECURSIVE split_scan(_, _)
split_scan(st, s) ==
    IF s = <<>> THEN st ELSE split_scan(split_step(st, Head(s)), Tail(s))

split_by_pipes(line) ==
    LET st == split_scan([parts |-> <<>>, current |-> <<>>,
                          in_single_quote |-> FALSE, in_double_quote |-> FALSE,
                          escape_next |-> FALSE], line)
    IN  IF st.in_single_quote \/ st.in_double_quote THEN Err
        ELSE IF trim(st.current) # <<>>
        THEN Ok(Append(st.parts, trim(st.current)))
        ELSE Ok(st.parts)

(***************************************************************************)
(* Parser::tokenize: the scan (the expansion of the tokens follows it)     *)
(***************************************************************************)
escape_char(ch) ==
    CASE ch = "n" -> <<"\n">>
      [] ch = "t" -> <<"\t">>
      [] ch = "r" -> <<"\r">>
      [] ch = "\\" -> <<"\\">>
      [] ch = "\"" -> <<"\"">>
      [] ch = "$" -> <<"$">>
      [] ch = BACKTICK -> <<BACKTICK>>
      [] OTHER -> <<"\\", ch>>

\* a variant of token_step for which only the space ends a token
token_step_space_only(st, ch) ==
    IF ch = " " /\ ~st.in_single_quote /\ ~st.in_double_quote /\ ~st.escape_next
    THEN IF st.current # <<>>
         THEN [st EXCEPT !.tokens = Append(@, st.current), !.current = <<>>]
         ELSE st
    ELSE IF ch \in {"'", "\"", "\\"} \/ st.escape_next
    THEN [st EXCEPT !.escape_next = FALSE]
    ELSE [st EXCEPT !.current = Append(@, ch)]

token_step(st, ch) ==
    IF st.escape_next
    THEN IF st.in_single_quote
         THEN [st EXCEPT !.current = @ \o (IF ch = "'" THEN <<"'">>
                                            ELSE <<"\\", ch>>),
                         !.escape_next = FALSE]
         ELSE [st EXCEPT !.current = @ \o escape_char(ch),
                         !.escape_next = FALSE]
    ELSE IF ch = "\\" /\ ~st.in_single_quote
    THEN [st EXCEPT !.escape_next = TRUE]
    ELSE IF ch = "'" /\ ~st.in_double_quote
    THEN [st EXCEPT !.in_single_quote = ~@]
    ELSE IF ch = "\"" /\ ~st.in_single_quote
    THEN [st EXCEPT !.in_double_quote = ~@]
    ELSE IF ch \in {" ", "\t"} /\ ~st.in_single_quote /\ ~st.in_double_quote
    THEN IF st.current # <<>>
         THEN [st EXCEPT !.tokens = Append(@, st.current), !.current = <<>>]
         ELSE st
    ELSE [st EXCEPT !.current = Append(@, ch)]

RECURSIVE token_scan(_, _)
token_scan(st, s) ==
    IF s = <<>> THEN st ELSE token_scan(token_step(st, Head(s)), Tail(s))

\* the raw tokens of a segment, before expansion
raw_tokens(line) ==
    LET st == token_scan([tokens |-> <<>>, current |-> <<>>,
                          in_single_quote |-> FALSE, in_double_quote |-> FALSE,
                          escape_next |-> FALSE], line)
    IN  IF st.in_single_quote \/ st.in_double_quote THEN Err
        ELSE IF st.current # <<>> THEN Ok(Append(st.tokens, st.current))
        ELSE Ok(st.tokens)

(***************************************************************************)
(* The environment of an expansion: cx is a record                         *)
(*   script_args  ExpansionContext.script_args                             *)
(*   env          the process environment, a function from the names that  *)
(*                are set to their values                                  *)
(*   sh_ok        whether `sh` can be spawned for a command substitution   *)
(*   cwd          std::env::current_dir()                                  *)
(*   glob         the file system as glob::glob sees it: a function from   *)
(*                the patterns that match to their matches, in order       *)
(*   overflow_checks  whether the build panics on arithmetic overflow      *)
(***************************************************************************)
env_var(cx, name) == IF name \in DOMAIN cx.env THEN <<cx.env[name]>> ELSE <<>>

unwrap_or_default(opt) == IF opt = <<>> THEN <<>> ELSE opt[1]

\* what `sh -c command` writes to its standard output: `echo TEXT` writes
\* TEXT (a quoted TEXT without its quotes); any other command of the model is
\* not found by sh and writes nothing
sh_stdout(command) ==
    LET c == trim(command)
    IN  IF starts_with(c, <<"e", "c", "h", "o", " ">>)
        THEN LET a == trim(SubSeq(c, 6, Len(c)))
             IN  IF Len(a) >= 2 /\ Head(a) = "'" /\ a[Len(a)] = "'"
                 THEN SubSeq(a, 2, Len(a) - 1)
                 ELSE a
        ELSE <<>>

execute_substitution(command, cx) ==
    IF cx.sh_ok THEN Ok(trim_end(sh_stdout(command))) ELSE Err

(***************************************************************************)
(* Parser::expand_command_substitution                                     *)
(***************************************************************************)
\* the scan to the parenthesis that closes "$(": j is the next position
RECURSIVE paren_scan(_, _, _, _)
paren_scan(chars, j, depth, command) ==
    IF j > Len(chars) \/ depth <= 0
    THEN [j |-> j, depth |-> depth, command |-> command]
    ELSE LET d == IF chars[j] = "(" THEN depth + 1
                  ELSE IF chars[j] = ")" THEN depth - 1
                  ELSE depth
         IN  paren_scan(chars, j + 1, d,
                        IF d > 0 THEN Append(command, chars[j]) ELSE command)

\* the scan to the closing backquote
RECURSIVE backtick_scan(_, _, _)
backtick_scan(chars, j, command) ==
    IF j > Len(chars) \/ chars[j] = BACKTICK
    THEN [j |-> j, command |-> command]
    ELSE IF chars[j] = "\\" /\ j < Len(chars)
    THEN backtick_scan(chars, j + 2, Append(command, chars[j + 1]))
    ELSE backtick_scan(chars, j + 1, Append(command, chars[j]))

RECURSIVE subst_loop(_, _, _, _)
subst_loop(chars, i, result, cx) ==
    IF i > Len(chars) THEN Ok(result)
    ELSE IF chars[i] = "$" /\ i < Len(chars) /\ chars[i + 1] = "("
    THEN LET sc == paren_scan(chars, i + 2, 1, <<>>)
         IN  IF sc.depth = 0
             THEN LET out == execute_substitution(sc.command, cx)
                  IN  IF out.k # "ok" THEN out
                      ELSE subst_loop(chars, sc.j, result \o out.v, cx)
             ELSE subst_loop(chars, i + 1, Append(result, chars[i]), cx)
    ELSE IF chars[i] = BACKTICK
    THEN LET sc == backtick_scan(chars, i + 1, <<>>)
         IN  IF sc.j <= Len(chars)
             THEN LET out == execute_substitution(sc.command, cx)
                  IN  IF out.k # "ok" THEN out
                      ELSE subst_loop(chars, sc.j + 1, result \o out.v, cx)
             ELSE subst_loop(chars, i + 1, Append(result, chars[i]), cx)
    ELSE subst_loop(chars, i + 1, Append(result, chars[i]), cx)

expand_command_substitution(token, cx) == subst_loop(token, 1, <<>>, cx)

(***************************************************************************)
(* Parser::evaluate_arithmetic                                             *)
(*                                                                         *)
(* The values of the model are the integers of the model checker: the      *)
(* expressions of the model stay far from the ends of i64, except in a     *)
(* shift, whose amount is checked as the build checks it.                  *)
(***************************************************************************)
RECURSIVE bitwise(_, _, _)
\* op is the truth table of the operation on one bit: op[x][y]
bitwise(op, a, b) ==
    IF a \in {0, -1} /\ b \in {0, -1}
    THEN IF op[(a % 2) + 1][(b % 2) + 1] = 1 THEN -1 ELSE 0
    ELSE 2 * bitwise(op, a \div 2, b \div 2) + op[(a % 2) + 1][(b % 2) + 1]

BitOr == <<<<0, 1>>, <<1, 1>>>>

BitXor == <<<<0, 1>>, <<1, 0>>>>

BitAnd == <<<<0, 0>>, <<0, 1>>>>

RECURSIVE pow2(_)
pow2(n) == IF n = 0 THEN 1 ELSE 2 * pow2(n - 1)

\* i64 division and remainder: the quotient is truncated toward zero
abs(n) == IF n < 0 THEN 0 - n ELSE n

trunc_div(a, b) ==
    IF (a < 0) = (b < 0) THEN abs(a) \div abs(b) ELSE 0 - (abs(a) \div abs(b))

trunc_rem(a, b) == a - b * trunc_div(a, b)

\* left_val << right_val and left_val >> right_val
shift(op, l, r, cx) ==
    IF (r < 0 \/ r >= 64) /\ cx.overflow_checks THEN Panic
    ELSE LET n == r % 64
         IN  IF op = "<<" THEN Ok(l * pow2(n)) ELSE Ok(l \div pow2(n))

apply_binary(op, l, r, cx) ==
    CASE op = <<"|", "|">> -> Ok(IF l # 0 \/ r # 0 THEN 1 ELSE 0)
      [] op = <<"&", "&">> -> Ok(IF l # 0 /\ r # 0 THEN 1 ELSE 0)
      [] op = <<"|">> -> Ok(bitwise(BitOr, l, r))
      [] op = <<"^">> -> Ok(bitwise(BitXor, l, r))
      [] op = <<"&">> -> Ok(bitwise(BitAnd, l, r))
      [] op = <<"=", "=">> -> Ok(IF l = r THEN 1 ELSE 0)
      [] op = <<"!", "=">> -> Ok(IF l # r THEN 1 ELSE 0)
      [] op = <<"<", "=">> -> Ok(IF l <= r THEN 1 ELSE 0)
      [] op = <<">", "=">> -> Ok(IF l >= r THEN 1 ELSE 0)
      [] op = <<"<">> -> Ok(IF l < r THEN 1 ELSE 0)
      [] op = <<">">> -> Ok(IF l > r THEN 1 ELSE 0)
      [] op = <<"<", "<">> -> shift("<<", l, r, cx)
      [] op = <<">", ">">> -> shift(">>", l, r, cx)
      [] op = <<"+">> -> Ok(l + r)
      [] op = <<"-">> -> Ok(l - r)
      [] op = <<"*">> -> Ok(l * r)
      [] op = <<"/">> -> IF r = 0 THEN Err ELSE Ok(trunc_div(l, r))
      [] op = <<"%">> -> IF r = 0 THEN Err ELSE Ok(trunc_rem(l, r))

\* the operators in the order in which evaluate_arithmetic looks for them:
\* the binary operators before the unary ones, and those after them
OpsBeforeUnary ==
    << <<"|", "|">>, <<"&", "&">>, <<"|">>, <<"^">>, <<"&">>,
       <<"=", "=">>, <<"!", "=">>, <<"<", "=">>, <<">", "=">>, <<"<">>, <<">">>,
       <<"<", "<">>, <<">", ">">> >>

OpsAfterUnary == << <<"+">>, <<"-">>, <<"*">>, <<"/">>, <<"%">> >>

\* the first operator of ops that occurs in expr, as <<op>>, or <<>>
RECURSIVE first_op(_, _)
first_op(ops, expr) ==
    IF ops = <<>> THEN <<>>
    ELSE IF rfind(expr, Head(ops)) # 0 THEN <<Head(ops)>>
    ELSE first_op(Tail(ops), expr)

RECURSIVE evaluate_arithmetic(_, _)
evaluate_binary(op, expr, cx) ==
    LET pos == rfind(expr, op)
        left == evaluate_arithmetic(SubSeq(expr, 1, pos - 1), cx)
        right == evaluate_arithmetic(SubSeq(expr, pos + Len(op), Len(expr)), cx)
    IN  IF left.k # "ok" THEN left
        ELSE IF right.k # "ok" THEN right
        ELSE apply_binary(op, left.v, right.v, cx)

evaluate_arithmetic(expr0, cx) ==
    LET expr == trim(expr0)
        lit == parse_signed(expr)
        b1 == first_op(OpsBeforeUnary, expr)
        b2 == first_op(OpsAfterUnary, expr)
    IN  IF lit # <<>> THEN Ok(lit[1])
        ELSE IF b1 # <<>> THEN evaluate_binary(b1[1], expr, cx)
        ELSE IF starts_with(expr, <<"~">>)
        THEN LET val == evaluate_arithmetic(Tail(expr), cx)
             IN  IF val.k # "ok" THEN val ELSE Ok(0 - val.v - 1)
        ELSE IF starts_with(expr, <<"!">>)
        THEN LET val == evaluate_arithmetic(Tail(expr), cx)
             IN  IF val.k # "ok" THEN val ELSE Ok(IF val.v = 0 THEN 1 ELSE 0)
        ELSE IF b2 # <<>> THEN evaluate_binary(b2[1], expr, cx)
        ELSE IF starts_with(expr, <<"$">>) /\ env_var(cx, Tail(expr)) # <<>>
        THEN LET n == parse_signed(env_var(cx, Tail(expr))[1])
             IN  IF n = <<>> THEN Err ELSE Ok(n[1])
        ELSE Err

(***************************************************************************)
(* Parser::expand_arithmetic                                               *)
(***************************************************************************)
\* the scan to the parentheses that close "$((": j is the next position
RECURSIVE arith_scan(_, _, _, _)
arith_scan(chars, j, depth, expr) ==
    IF j > Len(chars) \/ depth <= 0
    THEN [j |-> j, depth |-> depth, expr |-> expr]
    ELSE IF chars[j] = "("
    THEN arith_scan(chars, j + 1, depth + 1, expr)
    ELSE IF chars[j] = ")"
    THEN arith_scan(chars, j + 1, depth - 1,
                    IF depth - 1 > 0 THEN Append(expr, chars[j]) ELSE expr)
    ELSE arith_scan(chars, j + 1, depth, Append(expr, chars[j]))

RECURSIVE arith_loop(_, _, _, _)
arith_loop(chars, i, result, cx) ==
    IF i > Len(chars) THEN Ok(result)
    ELSE IF chars[i] = "$" /\ i + 2 <= Len(chars)
            /\ chars[i + 1] = "(" /\ chars[i + 2] = "("
    THEN LET sc == arith_scan(chars, i + 3, 2, <<>>)
         IN  IF sc.depth = 0
             THEN LET value == evaluate_arithmetic(sc.expr, cx)
                  IN  IF value.k # "ok" THEN value
                      ELSE arith_loop(chars, sc.j, result \o to_string(value.v), cx)
             ELSE arith_loop(chars, i + 1, Append(result, chars[i]), cx)
    ELSE arith_loop(chars, i + 1, Append(result, chars[i]), cx)

expand_arithmetic(token, cx) == arith_loop(token, 1, <<>>, cx)

(***************************************************************************)
(* Parser::expand_token: the pass over "$" and "~"                         *)
(***************************************************************************)
\* &s[a..b] with 0-based offsets: a slice whose start is past its end, or
\* whose end is past the string, panics
slice(s, a, b) == IF a > b \/ b > Len(s) THEN Panic ELSE Ok(SubSeq(s, a + 1, b))

\* the scan of "${...": from position j to the closing brace or to the first
\* modifier.  A modifier is <<kind, mod_start>>, mod_start a 0-based offset.
RECURSIVE brace_var_scan(_, _, _)
brace_var_scan(chars, j, var_name) ==
    IF j > Len(chars) \/ chars[j] = "}"
    THEN [j |-> j, var_name |-> var_name, modifier |-> <<>>]
    ELSE IF j < Len(chars) /\ chars[j] = ":"
    THEN IF chars[j + 1] = "-"
         THEN [j |-> j, var_name |-> var_name, modifier |-> <<"default", j + 1>>]
         ELSE IF chars[j + 1] = "+"
         THEN [j |-> j, var_name |-> var_name,
               modifier |-> <<"alternative", j + 1>>]
         ELSE IF chars[j + 1] = "?"
         THEN [j |-> j, var_name |-> var_name, modifier |-> <<"error", j + 1>>]
         ELSE brace_var_scan(chars, j + 1, Append(var_name, chars[j]))
    ELSE IF chars[j] = "#" /\ var_name = <<>>
    THEN [j |-> j, var_name |-> var_name, modifier |-> <<"length", j>>]
    ELSE IF chars[j] = ":" /\ j < Len(chars)
            /\ (is_ascii_digit(chars[j + 1]) \/ chars[j + 1] = "-")
    THEN [j |-> j, var_name |-> var_name, modifier |-> <<"substring", j>>]
    ELSE brace_var_scan(chars, j + 1, Append(var_name, chars[j]))

\* str::split(':')
RECURSIVE split_colon(_, _)
split_colon(s, cur) ==
    IF s = <<>> THEN <<cur>>
    ELSE IF Head(s) = ":" THEN <<cur>> \o split_colon(Tail(s), <<>>)
    ELSE split_colon(Tail(s), Append(cur, Head(s)))

\* the "substring" arm
substring_value(value, mod_content) ==
    LET parts == split_colon(mod_content, <<>>)
        offset == parse_unsigned(parts[1])
        length == IF Len(parts) >= 2 THEN parse_unsigned(parts[2]) ELSE <<>>
    IN  IF offset = <<>> \/ offset[1] >= Len(value) THEN <<>>
        ELSE IF length # <<>>
        THEN SubSeq(value, offset[1] + 1,
                    IF offset[1] + length[1] < Len(value)
                    THEN offset[1] + length[1] ELSE Len(value))
        ELSE SubSeq(value, offset[1] + 1, Len(value))

\* What one "${...}" with its closing brace at position sc.j contributes:
\* a Result holding the text pushed to the result.  i is the position of "$".
braced_value(token, i, sc, cx) ==
    IF sc.modifier = <<>>
    THEN Ok(unwrap_or_default(env_var(cx, sc.var_name)))
    ELSE LET mod_content == slice(token, sc.modifier[2], sc.j - 1)
             kind == sc.modifier[1]
             var == env_var(cx, sc.var_name)
         IN  IF mod_content.k # "ok" THEN mod_content
             ELSE IF kind = "default"
             THEN Ok(IF var # <<>> THEN var[1] ELSE mod_content.v)
             ELSE IF kind = "alternative"
             THEN Ok(IF var # <<>> THEN mod_content.v ELSE <<>>)
             ELSE IF kind = "error"
             THEN IF var = <<>> THEN Err ELSE Ok(var[1])
             ELSE IF kind = "length"
             THEN LET name == slice(token, i + 2, sc.j - 1)
                  IN  IF name.k # "ok" THEN name
                      ELSE Ok(to_string(
                               Len(unwrap_or_default(env_var(cx, name.v)))))
             ELSE Ok(substring_value(unwrap_or_default(var), mod_content.v))

\* the end of a run of characters of the set ok, from position j
RECURSIVE run_end(_, _, _)
run_end(chars, j, ok) ==
    IF j <= Len(chars) /\ chars[j] \in ok THEN run_end(chars, j + 1, ok) ELSE j

\* the end of a "~user" name: the next "/" or " "
RECURSIVE user_end(_, _)
user_end(chars, j) ==
    IF j <= Len(chars) /\ chars[j] # "/" /\ chars[j] # " "
    THEN user_end(chars, j + 1) ELSE j

\* One iteration of the loop at position i: [k, push, next], the text added
\* to the result and the next position (or the error that ends the pass).
Step(push, next) == [k |-> "ok", push |-> push, next |-> next]

dollar_step(chars, i, cx) ==
    LET c == chars[i + 1]
        fall == Step(<<chars[i]>>, i + 1)
    IN  IF c = "{"
        THEN LET sc == brace_var_scan(chars, i + 2, <<>>)
                 val == braced_value(chars, i, sc, cx)
             IN  IF sc.j > Len(chars) THEN fall
                 ELSE IF val.k # "ok" THEN [k |-> val.k, push |-> <<>>, next |-> i]
                 ELSE Step(val.v, sc.j + 1)
        ELSE IF c = "(" /\ i + 2 <= Len(chars)
        THEN Step(<<chars[i + 1]>>, i + 2)
        ELSE IF is_ascii_digit(c)
        THEN LET j == run_end(chars, i + 1, Digits)
                 arg_num == parse_unsigned(SubSeq(chars, i + 1, j - 1))
             IN  IF arg_num = <<>> THEN fall
                 ELSE IF arg_num[1] > 0 /\ arg_num[1] <= Len(cx.script_args)
                 THEN Step(cx.script_args[arg_num[1]], j)
                 ELSE Step(<<>>, j)
        ELSE IF c = "#" THEN Step(to_string(Len(cx.script_args)), i + 2)
        ELSE IF c = "@" THEN Step(join(cx.script_args, <<" ">>), i + 2)
        ELSE IF c = "*" THEN Step(join(cx.script_args, <<" ">>), i + 2)
        ELSE IF is_alphanumeric(c) \/ c = "_"
        THEN LET j == run_end(chars, i + 1, Digits \cup Letters \cup {"_"})
             IN  Step(unwrap_or_default(env_var(cx, SubSeq(chars, i + 1, j - 1))), j)
        ELSE fall

HOME == <<"H", "O", "M", "E">>

PWD == <<"P", "W", "D">>

OLDPWD == <<"O", "L", "D", "P", "W", "D">>

tilde_step(chars, i, cx) ==
    LET fall == Step(<<chars[i]>>, i + 1)
        home == env_var(cx, HOME)
    IN  IF i + 1 > Len(chars) \/ chars[i + 1] = "/" \/ chars[i + 1] = " "
        THEN IF home # <<>> THEN Step(home[1], i + 1) ELSE fall
        ELSE IF chars[i + 1] = "+"
        THEN IF env_var(cx, PWD) # <<>> THEN Step(env_var(cx, PWD)[1], i + 2)
             ELSE IF cx.cwd # <<>> THEN Step(cx.cwd[1], i + 2)
             ELSE fall
        ELSE IF chars[i + 1] = "-"
        THEN IF env_var(cx, OLDPWD) # <<>>
             THEN Step(env_var(cx, OLDPWD)[1], i + 2) ELSE fall
        ELSE IF home # <<>> THEN Step(home[1], user_end(chars, i + 1))
        ELSE fall

RECURSIVE var_loop(_, _, _, _)
var_loop(chars, i, result, cx) ==
    IF i > Len(chars) THEN Ok(result)
    ELSE LET st == IF chars[i] = "$" /\ i < Len(chars)
                   THEN dollar_step(chars, i, cx)
                   ELSE IF chars[i] = "~"
                           /\ (i = 1 \/ result = <<>>
                               \/ result[Len(result)] \in {" ", "/"})
                   THEN tilde_step(chars, i, cx)
                   ELSE Step(<<chars[i]>>, i + 1)
         IN  IF st.k # "ok" THEN [k |-> st.k, v |-> <<>>]
             ELSE var_loop(chars, st.next, result \o st.push, cx)

(***************************************************************************)
(* Parser::expand_brace and Parser::expand_brace_content                   *)
(***************************************************************************)
\* str::split_whitespace
RECURSIVE split_whitespace(_, _)
split_whitespace(s, cur) ==
    IF s = <<>> THEN IF cur = <<>> THEN <<>> ELSE <<cur>>
    ELSE IF is_whitespace(Head(s))
    THEN (IF cur = <<>> THEN <<>> ELSE <<cur>>) \o split_whitespace(Tail(s), <<>>)
    ELSE split_whitespace(Tail(s), Append(cur, Head(s)))

\* `current += step` is past an end of i32: a panic in a build with overflow
\* checks; in a build without them current wraps around and the loop goes on
Overflow == [k |-> "overflow", v |-> <<>>]

\* the loop has not ended and never will
Hang == [k |-> "hang", v |-> <<>>]

\* what the build makes of a result
in_build(r, cx) ==
    IF r.k = "overflow" THEN (IF cx.overflow_checks THEN Panic ELSE Hang) ELSE r

\* the items prefix<n>suffix of a numeric range, from current to end_ by
\* step: a Result holding the list of the items
RECURSIVE range_items(_, _, _, _, _)
items_from(item, rest) == IF rest.k # "ok" THEN rest ELSE Ok(<<item>> \o rest.v)

range_items(current, end_, step, prefix, suffix) ==
    IF (step > 0 /\ current <= end_) \/ (step < 0 /\ current >= end_)
    THEN IF (step > 0 /\ current = I32_MAX) \/ (step < 0 /\ current = I32_MIN)
         THEN Overflow
         ELSE items_from(prefix \o to_string(current) \o suffix,
                         range_items(current + step, end_, step, prefix, suffix))
    ELSE Ok(<<>>)

\* the items joined by spaces
joined(items) == IF items.k # "ok" THEN items ELSE Ok(join(items.v, <<" ">>))

\* the split of the content at its top-level commas: [parts, current_part]
RECURSIVE comma_scan(_, _, _, _)
comma_scan(s, depth, parts, current_part) ==
    IF s = <<>> THEN [parts |-> parts, current_part |-> current_part]
    ELSE IF Head(s) = "{"
    THEN comma_scan(Tail(s), depth + 1, parts, Append(current_part, Head(s)))
    ELSE IF Head(s) = "}"
    THEN comma_scan(Tail(s), depth - 1, parts, Append(current_part, Head(s)))
    ELSE IF Head(s) = "," /\ depth = 0
    THEN comma_scan(Tail(s), depth, Append(parts, trim(current_part)), <<>>)
    ELSE comma_scan(Tail(s), depth, parts, Append(current_part, Head(s)))

RECURSIVE expand_brace(_)
RECURSIVE expand_parts(_, _, _)
\* the loop over the parts: a Result holding the list of expanded parts
expand_parts(parts, prefix, suffix) ==
    IF parts = <<>> THEN Ok(<<>>)
    ELSE LET part == Head(parts)
             rest == expand_parts(Tail(parts), prefix, suffix)
         IN  IF contains(part, <<"{">>) /\ contains(part, <<"}">>)
             THEN LET nested == expand_brace(part)
                      items == split_whitespace(nested.v, <<>>)
                  IN  IF nested.k # "ok" THEN nested
                      ELSE IF rest.k # "ok" THEN rest
                      ELSE Ok([n \in 1..Len(items) |->
                                 prefix \o items[n] \o suffix] \o rest.v)
             ELSE IF rest.k # "ok" THEN rest
             ELSE Ok(<<prefix \o part \o suffix>> \o rest.v)

expand_brace_content(content, prefix, suffix) ==
    LET range_pos == find(content, <<".", ".">>)
        start == IF range_pos = 0 THEN <<>>
                 ELSE parse_i32(trim(SubSeq(content, 1, range_pos - 1)))
        end_ == IF range_pos = 0 THEN <<>>
                ELSE parse_i32(trim(SubSeq(content, range_pos + 2, Len(content))))
        sc == comma_scan(content, 0, <<>>, <<>>)
        parts == IF sc.current_part # <<>>
                 THEN Append(sc.parts, trim(sc.current_part))
                 ELSE sc.parts
        expanded == expand_parts(parts, prefix, suffix)
    IN  IF start # <<>> /\ end_ # <<>>
        THEN joined(range_items(start[1], end_[1],
                                IF start[1] <= end_[1] THEN 1 ELSE -1,
                                prefix, suffix))
        ELSE IF expanded.k # "ok" THEN expanded
        ELSE Ok(join(expanded.v, <<" ">>))

\* a variant of brace_loop that leaves out a } that closes no group
RECURSIVE brace_loop_dropping_close(_, _, _, _, _)
brace_loop_dropping_close(token, i, result, brace_start, brace_depth) ==
    IF i > Len(token)
    THEN IF brace_depth > 0 THEN Ok(token) ELSE Ok(result)
    ELSE IF token[i] = "{" /\ (i = 1 \/ token[i - 1] # "$")
    THEN brace_loop_dropping_close(token, i + 1, result,
                    IF brace_depth = 0 THEN <<i>> ELSE brace_start,
                    brace_depth + 1)
    ELSE IF token[i] = "}" /\ brace_depth = 1 /\ brace_start # <<>>
    THEN LET start == brace_start[1]
             prefix == SubSeq(token, 1, start - 1)
             suffix == SubSeq(token, i + 1, Len(token))
             expanded == expand_brace_content(SubSeq(token, start + 1, i - 1),
                                              prefix, suffix)
         IN  IF expanded.k # "ok" THEN expanded
             ELSE brace_loop_dropping_close(token, i + Len(suffix) + 1,
                                            result \o expanded.v, <<>>, 0)
    ELSE brace_loop_dropping_close(token, i + 1,
                    IF brace_depth = 0 /\ token[i] # "}"
                    THEN Append(result, token[i]) ELSE result,
                    brace_start,
                    IF token[i] = "}" /\ brace_depth > 0
                    THEN brace_depth - 1 ELSE brace_depth)

\* the loop of expand_brace: brace_start is an Option (a 1-based position)
RECURSIVE brace_loop(_, _, _, _, _)
brace_loop(token, i, result, brace_start, brace_depth) ==
    IF i > Len(token)
    THEN IF brace_depth > 0 THEN Ok(token) ELSE Ok(result)
    ELSE IF token[i] = "{" /\ (i = 1 \/ token[i - 1] # "$")
    THEN brace_loop(token, i + 1, result,
                    IF brace_depth = 0 THEN <<i>> ELSE brace_start,
                    brace_depth + 1)
    ELSE IF token[i] = "}" /\ brace_depth = 1 /\ brace_start # <<>>
    THEN LET start == brace_start[1]
             prefix == SubSeq(token, 1, start - 1)
             suffix == SubSeq(token, i + 1, Len(token))
             expanded == expand_brace_content(SubSeq(token, start + 1, i - 1),
                                              prefix, suffix)
         IN  IF expanded.k # "ok" THEN expanded
             ELSE brace_loop(token, i + Len(suffix) + 1, result \o expanded.v,
                             <<>>, 0)
    ELSE IF token[i] = "}" /\ brace_depth > 0
    THEN brace_loop(token, i + 1,
                    IF brace_depth - 1 = 0 THEN Append(result, token[i])
                    ELSE result,
                    brace_start, brace_depth - 1)
    ELSE brace_loop(token, i + 1,
                    IF brace_depth = 0 THEN Append(result, token[i]) ELSE result,
                    brace_start, brace_depth)

expand_brace(token) == brace_loop(token, 1, <<>>, <<>>, 0)

(***************************************************************************)
(* Parser::expand_glob, Parser::expand_token, Parser::tokenize             *)
(***************************************************************************)
\* glob::glob(pattern): the matching paths, in order
glob_matches(pattern, cx) ==
    IF pattern \in DOMAIN cx.glob THEN cx.glob[pattern] ELSE <<>>

expand_glob(pattern, cx) ==
    IF contains(pattern, <<"*">>) \/ contains(pattern, <<"?">>)
       \/ contains(pattern, <<"[">>)
    THEN IF glob_matches(pattern, cx) = <<>> THEN Ok(pattern)
         ELSE Ok(glob_matches(pattern, cx)[1])
    ELSE Ok(pattern)

\* the passes of expand_token, each applied to the result of the one before
after_brace(t4, cx) ==
    IF t4.k # "ok" THEN in_build(t4, cx) ELSE expand_glob(t4.v, cx)

after_variables(t3, cx) ==
    IF t3.k # "ok" THEN t3 ELSE after_brace(expand_brace(t3.v), cx)

after_arithmetic(t2, cx) ==
    IF t2.k # "ok" THEN t2 ELSE after_variables(var_loop(t2.v, 1, <<>>, cx), cx)

after_substitution(t1, cx) ==
    IF t1.k # "ok" THEN t1 ELSE after_arithmetic(expand_arithmetic(t1.v, cx), cx)

expand_token(token, cx) ==
    after_substitution(expand_command_substitution(token, cx), cx)

\* a token and the tokens after it, expanded: the first failure is returned
expanded_tokens(first, rest) ==
    IF first.k # "ok" THEN first
    ELSE IF rest.k # "ok" THEN rest
    ELSE Ok(<<first.v>> \o rest.v)

\* the expansion of the tokens in order
RECURSIVE expand_all(_, _)
expand_all(tokens, cx) ==
    IF tokens = <<>> THEN Ok(<<>>)
    ELSE expanded_tokens(expand_token(Head(tokens), cx),
                         expand_all(Tail(tokens), cx))

\* the expansion of the raw tokens, or the error of the scan
expand_raw(raw, cx) == IF raw.k # "ok" THEN raw ELSE expand_all(raw.v, cx)

tokenize(line, cx) == expand_raw(raw_tokens(line), cx)

(***************************************************************************)
(* command.rs: Redirection and Command                                     *)
(***************************************************************************)
\* a Redirection: its variant, its file descriptor (FdOutput, FdInput; 0
\* otherwise) and its target
Redirection(variant, fd, file) == [t |-> variant, fd |-> fd, file |-> file]

Command(name, args, stdin, stdout, stderr, stdin_file) ==
    [name |-> name, args |-> args, stdin |-> stdin, stdout |-> stdout,
     stderr |-> stderr, stdin_file |-> stdin_file]

(***************************************************************************)
(* Parser::parse_fd_redirection and Parser::parse_with_redirection         *)
(***************************************************************************)
\* Some([stdout, stderr, stdin, next]) or None: each of the three is an
\* Option<Option<Redirection>>, next is the new value of the index i
parse_fd_redirection(token, tokens, i) ==
    LET gt == find(token, <<">">>)
        lt == find(token, <<"<">>)
        dup == find(token, <<">", "&">>)
        fd_out == IF gt > 1 THEN parse_unsigned(SubSeq(token, 1, gt - 1)) ELSE <<>>
        fd_in == IF lt > 1 THEN parse_unsigned(SubSeq(token, 1, lt - 1)) ELSE <<>>
        fd_from == IF dup > 1 /\ dup + 1 < Len(token)
                   THEN parse_unsigned(SubSeq(token, 1, dup - 1)) ELSE <<>>
        fd_to == IF fd_from # <<>>
                 THEN parse_unsigned(SubSeq(token, dup + 2, Len(token))) ELSE <<>>
    IN  IF fd_out # <<>> /\ i + 1 <= Len(tokens)
        THEN <<[stdout |-> << <<IF ends_with(token, <<">", ">">>)
                                THEN Redirection("Append", 0, tokens[i + 1])
                                ELSE Redirection("FdOutput", fd_out[1],
                                                 tokens[i + 1])>> >>,
                stderr |-> <<>>, stdin |-> <<>>, next |-> i + 2]>>
        ELSE IF fd_in # <<>> /\ i + 1 <= Len(tokens)
        THEN <<[stdout |-> <<>>, stderr |-> <<>>,
                stdin |-> << <<Redirection("FdInput", fd_in[1], tokens[i + 1])>> >>,
                next |-> i + 2]>>
        ELSE IF fd_to # <<>>
        THEN IF fd_from[1] = 1
             THEN <<[stdout |-> << <<Redirection("Output", 0,
                                                 <<"&">> \o to_string(fd_to[1]))>> >>,
                     stderr |-> <<>>, stdin |-> <<>>, next |-> i + 1]>>
             ELSE IF fd_from[1] = 2
             THEN <<[stdout |-> <<>>,
                     stderr |-> << <<Redirection("Error", 0,
                                                 <<"&">> \o to_string(fd_to[1]))>> >>,
                     stdin |-> <<>>, next |-> i + 1]>>
             ELSE <<[stdout |-> <<>>, stderr |-> <<>>, stdin |-> <<>>,
                     next |-> i + 1]>>
        ELSE <<>>

\* the operators that take the following token as their target, with the
\* stream each sets
TargetOps ==
    { <<">">>, <<">", ">">>, <<"<">>, <<"<", "<">>, <<"<", "<", "-">>,
      <<"<", "<", "<">>, <<"2", ">">>, <<"2", ">", ">">>, <<"&", ">">> }

is_process_subst(token, open) ==
    starts_with(token, <<open, "(">>) /\ ends_with(token, <<")">>)

\* the state after the arm of an operator of TargetOps that has a target
operator_arm(st, op, target) ==
    CASE op = <<">">> ->
           [st EXCEPT !.stdout = <<Redirection("Output", 0, target)>>]
      [] op = <<">", ">">> ->
           [st EXCEPT !.stdout = <<Redirection("Append", 0, target)>>]
      [] op = <<"<">> ->
           [st EXCEPT !.stdin = <<Redirection("Input", 0,
                IF is_process_subst(target, "<")
                THEN <<"<", "(">> \o SubSeq(target, 3, Len(target) - 1) \o <<")">>
                ELSE target)>>]
      [] op = <<"<", "<">> ->
           [st EXCEPT !.stdin = <<Redirection("Input", 0, <<"<", "<">> \o target)>>]
      [] op = <<"<", "<", "-">> ->
           [st EXCEPT !.stdin =
                <<Redirection("Input", 0, <<"<", "<", "-">> \o target)>>]
      [] op = <<"<", "<", "<">> ->
           [st EXCEPT !.stdin =
                <<Redirection("Input", 0, <<"<", "<", "<">> \o target)>>]
      [] op = <<"2", ">">> ->
           [st EXCEPT !.stderr = <<Redirection("Error", 0, target)>>]
      [] op = <<"2", ">", ">">> ->
           [st EXCEPT !.stderr = <<Redirection("ErrorAppend", 0, target)>>]
      [] op = <<"&", ">">> ->
           [st EXCEPT !.stdout = <<Redirection("Combined", 0, target)>>,
                      !.stderr = <<Redirection("Combined", 0, target)>>]

\* the arm of any other token, fd_redir being what parse_fd_redirection
\* returned for it
apply_fd_redirection(st, token, i, fd_redir) ==
    IF fd_redir # <<>>
    THEN [st EXCEPT
           !.stdout = IF fd_redir[1].stdout # <<>>
                      THEN fd_redir[1].stdout[1] ELSE @,
           !.stderr = IF fd_redir[1].stderr # <<>>
                      THEN fd_redir[1].stderr[1] ELSE @,
           !.stdin = IF fd_redir[1].stdin # <<>>
                     THEN fd_redir[1].stdin[1] ELSE @,
           !.i = fd_redir[1].next]
    ELSE IF is_process_subst(token, "<")
    THEN [st EXCEPT !.stdin = <<Redirection("Input", 0, token)>>, !.i = i + 1]
    ELSE IF is_process_subst(token, ">")
    THEN [st EXCEPT !.stdout = <<Redirection("Output", 0, token)>>, !.i = i + 1]
    ELSE [st EXCEPT !.result_tokens = Append(@, token), !.i = i + 1]

other_arm(st, token, tokens, i) ==
    apply_fd_redirection(st, token, i, parse_fd_redirection(token, tokens, i))

RECURSIVE redirection_loop(_, _)
redirection_loop(st, tokens) ==
    IF st.i > Len(tokens) THEN st
    ELSE IF tokens[st.i] \in TargetOps
    THEN IF st.i + 1 <= Len(tokens)
         THEN redirection_loop(
                [operator_arm(st, tokens[st.i], tokens[st.i + 1])
                   EXCEPT !.i = st.i + 2], tokens)
         ELSE redirection_loop([st EXCEPT !.i = st.i + 1], tokens)
    ELSE redirection_loop(other_arm(st, tokens[st.i], tokens, st.i), tokens)

\* the loop over the tokens, or the error of tokenize
redirect(tokens) ==
    IF tokens.k # "ok" THEN tokens
    ELSE Ok(redirection_loop([result_tokens |-> <<>>, stdout |-> <<>>,
                              stderr |-> <<>>, stdin |-> <<>>, i |-> 1],
                             tokens.v))

\* Ok([result_tokens, stdout, stderr, stdin, i]) or the error of tokenize
parse_with_redirection(line, cx) == redirect(tokenize(line, cx))

(***************************************************************************)
(* Parser::parse_with_context                                              *)
(***************************************************************************)
\* a variant of stdin_cmd that links every later command to the first one
stdin_cmd_first(i, commands) == IF i > 1 THEN <<commands[1]>> ELSE <<>>

\* the stdin link of the command of segment i (1-based): a copy of the
\* element i - 1 of the commands built so far (commands[i - 1], 0-based, in
\* the source), none for the first segment
stdin_cmd(i, commands) == IF i > 1 THEN <<commands[i - 1]>> ELSE <<>>

\* The loop over the segments, from segment i (1-based) with the commands
\* built so far.  The result is a Result with one more field, at: the segment
\* at which the loop ended (Len(pipe_parts) + 1 when it ran to its end).
\* Indexing past the commands built so far panics.
RECURSIVE parse_loop(_, _, _, _)
\* the iteration of segment i, r being what parse_with_redirection returned
build_command(pipe_parts, i, commands, cx, r) ==
    IF r.k # "ok" THEN [k |-> r.k, v |-> <<>>, at |-> i]
    ELSE IF r.v.result_tokens = <<>>
    THEN parse_loop(pipe_parts, i + 1, commands, cx)
    ELSE IF i > 1 /\ i - 1 > Len(commands)
    THEN [k |-> "panic", v |-> <<>>, at |-> i]
    ELSE parse_loop(pipe_parts, i + 1,
           Append(commands,
                  Command(r.v.result_tokens[1], Tail(r.v.result_tokens),
                          stdin_cmd(i, commands),
                          r.v.stdout, r.v.stderr, r.v.stdin)),
           cx)

\* the iteration of segment i, trimmed
parse_segment(pipe_parts, i, commands, cx, trimmed) ==
    IF trimmed = <<>> THEN parse_loop(pipe_parts, i + 1, commands, cx)
    ELSE build_command(pipe_parts, i, commands, cx,
                       parse_with_redirection(trimmed, cx))

parse_loop(pipe_parts, i, commands, cx) ==
    IF i > Len(pipe_parts) THEN [k |-> "ok", v |-> commands, at |-> i]
    ELSE parse_segment(pipe_parts, i, commands, cx, trim(pipe_parts[i]))

\* a variant of parse_segments that swallows an error: a line with an
\* unclosed quote is returned as one command named by the whole line, and
\* an error of a segment leaves the commands of the segments before it
RECURSIVE swallowed(_, _, _)
swallowed(pipe_parts, cx, r) ==
    IF r.k = "err"
    THEN swallowed(pipe_parts, cx,
                   parse_loop(SubSeq(pipe_parts.v, 1, r.at - 1), 1, <<>>, cx))
    ELSE r

parse_segments_swallowing_errors(line, cx, pipe_parts) ==
    IF pipe_parts.k # "ok"
    THEN [k |-> "ok", v |-> <<Command(line, <<>>, <<>>, <<>>, <<>>, <<>>)>>,
          at |-> 0]
    ELSE swallowed(pipe_parts, cx, parse_loop(pipe_parts.v, 1, <<>>, cx))

\* the commands of the segments, or the error of split_by_pipes
parse_segments(line, cx, pipe_parts) ==
    IF pipe_parts.k # "ok" THEN [k |-> pipe_parts.k, v |-> <<>>, at |-> 0]
    ELSE parse_loop(pipe_parts.v, 1, <<>>, cx)

parse_with_context(line, cx) ==
    IF trim(line) = <<>> THEN [k |-> "ok", v |-> <<>>, at |-> 1]
    ELSE parse_segments(line, cx, split_by_pipes(line))

(***************************************************************************)
(* jobs.rs: JobStatus, Job and JobManager.  The job manager is the pair    *)
(* [jobs, next_id]; the table is a sequence in insertion order.            *)
(***************************************************************************)
Running == <<"Running">>

Stopped == <<"Stopped">>

Done(code) == <<"Done", code>>

Job(id, command, pid, status) ==
    [id |-> id, command |-> command, pid |-> pid, status |-> status]

\* JobManager::new
new == [jobs |-> <<>>, next_id |-> 1]

\* a variant of add_job that numbers the new job by its position in the table
add_job_by_position(jm, command, pid) ==
    [jobs |-> Append(jm.jobs, Job(Len(jm.jobs) + 1, command, pid, Running)),
     next_id |-> jm.next_id + 1, id |-> Len(jm.jobs) + 1]

\* the job manager after the call, with the id that the call returns
add_job(jm, command, pid) ==
    [jobs |-> Append(jm.jobs, Job(jm.next_id, command, pid, Running)),
     next_id |-> jm.next_id + 1, id |-> jm.next_id]

list_jobs(js) == js

\* jobs.iter().find(p): the first job of the table that satisfies p
RECURSIVE first_with_status(_, _)
first_with_status(js, s) ==
    IF js = <<>> THEN <<>>
    ELSE IF Head(js).status = s THEN <<Head(js)>>
    ELSE first_with_status(Tail(js), s)

RECURSIVE first_with_id(_, _)
first_with_id(js, id) ==
    IF js = <<>> THEN <<>>
    ELSE IF Head(js).id = id THEN <<Head(js)>>
    ELSE first_with_id(Tail(js), id)

RECURSIVE trim_start_matches(_, _)
trim_start_matches(s, c) ==
    IF s # <<>> /\ Head(s) = c THEN trim_start_matches(Tail(s), c) ELSE s

is_running(j) == j.status = Running

\* a variant of get_job whose current job is the last Running job
get_job_last_running(js, spec) ==
    LET running == SelectSeq(js, is_running)
    IN  IF running = <<>> THEN <<>> ELSE <<running[Len(running)]>>

get_job(js, spec) ==
    IF spec \in {<<"+">>, <<"%", "+">>}
    THEN first_with_status(js, Running)
    ELSE IF spec \in {<<"-">>, <<"%", "-">>}
    THEN LET running == SelectSeq(js, is_running)
         IN  IF Len(running) > 1 THEN <<running[Len(running) - 1]>> ELSE <<>>
    ELSE LET id == parse_unsigned(trim_start_matches(spec, "%"))
         IN  IF id # <<>> THEN first_with_id(js, id[1]) ELSE <<>>

\* the status of the first job of the table with this pid is replaced
RECURSIVE update_job_status(_, _, _)
update_job_status(js, pid, status) ==
    IF js = <<>> THEN <<>>
    ELSE IF Head(js).pid = pid
    THEN <<[Head(js) EXCEPT !.status = status]>> \o Tail(js)
    ELSE <<Head(js)>> \o update_job_status(Tail(js), pid, status)

remove_job(js, id) == LET keep(j) == j.id # id IN SelectSeq(js, keep)

(***************************************************************************)
(* command.rs and executor.rs: the names of the builtins, Executor::execute*)
(***************************************************************************)
W_alias == <<"a", "l", "i", "a", "s">>

W_unalias == <<"u", "n", "a", "l", "i", "a", "s">>

W_pushd == <<"p", "u", "s", "h", "d">>

W_popd == <<"p", "o", "p", "d">>

W_dirs == <<"d", "i", "r", "s">>

W_source == <<"s", "o", "u", "r", "c", "e">>

W_jobs == <<"j", "o", "b", "s">>

W_fg == <<"f", "g">>

W_bg == <<"b", "g">>

W_kill == <<"k", "i", "l", "l">>

W_wait == <<"w", "a", "i", "t">>

W_cd == <<"c", "d">>

W_exit == <<"e", "x", "i", "t">>

W_true == <<"t", "r", "u", "e">>

W_false == <<"f", "a", "l", "s", "e">>

W_test == <<"t", "e", "s", "t">>

W_function == <<"f", "u", "n", "c", "t", "i", "o", "n">>

W_echo == <<"e", "c", "h", "o">>

W_pwd == <<"p", "w", "d">>

ZIRON == <<".", "z", "i", "r", "o", "n">>

\* the builtins that execute_line hands to execute_builtin_with_state
StateBuiltins ==
    {W_alias, W_unalias, W_pushd, W_popd, W_dirs, W_source, W_jobs, W_fg,
     W_bg, W_kill, W_wait}

\* the names of Command::is_builtin that the model gives a behaviour; the
\* other names of is_builtin (cd, export, unset, history, type, which,
\* ulimit, umask, times, read, printf) are not commands of the model
is_builtin(name) ==
    name \in StateBuiltins
              \cup {W_exit, W_test, W_true, W_false, W_function, W_echo, W_pwd}

\* Executor::builtin_test; is_file stands for the answer of the file system
\* to a -f, -d or -e test
builtin_test(args0, is_file) ==
    LET args == IF args0 # <<>> /\ args0[1] = <<"[">> THEN Tail(args0) ELSE args0
    IN  IF args0 = <<>> \/ args = <<>> THEN "err"
        ELSE IF args[1] \in {<<"-", "f">>, <<"-", "d">>, <<"-", "e">>}
        THEN IF Len(args) >= 2 /\ is_file THEN "ok" ELSE "err"
        ELSE IF Len(args) >= 3 /\ args[2] = <<"=">>
        THEN IF args[1] = args[3] THEN "ok" ELSE "err"
        ELSE "err"

\* Executor::execute_builtin: "ok", "err", or "exit" (std::process::exit)
execute_builtin(command, is_file) ==
    CASE command.name = W_true -> "ok"
      [] command.name = W_false -> "err"
      [] command.name = W_exit -> "exit"
      [] command.name = W_echo -> "ok"
      [] command.name = W_pwd -> "ok"
      [] command.name = W_test -> builtin_test(command.args, is_file)
      [] OTHER -> "err"

(***************************************************************************)
(* Executor::execute with its effects (executor.rs).  A world w tells what *)
(* the environment does: files are the files that exist, with their        *)
(* content; out and errout are what the child writes to its standard       *)
(* output and error; exit_ok whether it exits with success; spawn_ok       *)
(* whether a process can be started; writable whether a file can be        *)
(* created or opened for writing; err_first whether the child writes to    *)
(* its standard error before its standard output.                          *)
(* The outcome is [r, files, console, stdin]: the result, the files        *)
(* afterwards, what has been written to the standard output of the shell,  *)
(* and an Option with what the standard input of the child was wired to.   *)
(***************************************************************************)
Outcome(r, files, console, stdin) ==
    [r |-> r, files |-> files, console |-> console, stdin |-> stdin]

\* println!
println(line) == line \o <<"\n">>

\* Executor::builtin_echo
builtin_echo(command) == println(join(command.args, <<" ">>))

\* Executor::builtin_pwd
builtin_pwd(w) == println(w.cwd)

\* what a builtin prints with println!: the redirections of the command are
\* not looked at
builtin_output(command, w) ==
    CASE command.name = W_echo -> builtin_echo(command)
      [] command.name = W_pwd -> builtin_pwd(w)
      [] OTHER -> <<>>

\* the standard streams of the child
Inherit == [to |-> "inherit"]

Piped == [to |-> "piped"]

Null == [to |-> "null"]

\* a temporary file with the content, opened for reading
TempFile(content) == [to |-> "temp", content |-> content]

\* File::open(path) of an existing file
FileIn(path, content) == [to |-> "file", path |-> path, content |-> content]

\* the write end of a pipe to a process of a process substitution
Subprocess == [to |-> "subprocess"]

\* a handle that writes to the file path, at the end when append, else from
\* its own offset, which starts at 0
FileOut(path, append) == [to |-> "out", path |-> path, append |-> append]

\* File::create: the file exists and is empty
create(files, path) == (path :> <<>>) @@ files

\* OpenOptions::new().create(true).append(true).open
open_append(files, path) == IF path \in DOMAIN files THEN files ELSE create(files, path)

\* the set up of the standard input: file redirection takes precedence over
\* the pipe
stdin_setup(command, w) ==
    IF command.stdin_file # <<>>
    THEN LET redir == command.stdin_file[1]
             file == redir.file
         IN  IF redir.t = "Input"
             THEN IF is_process_subst(file, "<")
                  THEN IF w.spawn_ok /\ w.writable THEN Ok(TempFile(w.out))
                       ELSE Err
                  ELSE IF starts_with(file, <<"<", "<", "<">>)
                  THEN IF w.writable
                       THEN Ok(TempFile(SubSeq(file, 4, Len(file))))
                       ELSE Err
                  ELSE IF starts_with(file, <<"<", "<", "-">>) THEN Ok(Null)
                  ELSE IF starts_with(file, <<"<", "<">>) THEN Ok(Null)
                  ELSE IF file \in DOMAIN w.files
                  THEN Ok(FileIn(file, w.files[file]))
                  ELSE Err
             ELSE Ok(Inherit)
    ELSE IF command.stdin # <<>> THEN Ok(Piped)
    ELSE Ok(Inherit)

\* the state of the set up: [k, files, stdin, stdout, stderr]
Setup(k, files, stdin, stdout, stderr) ==
    [k |-> k, files |-> files, stdin |-> stdin, stdout |-> stdout,
     stderr |-> stderr]

\* the set up of the standard output
stdout_setup(st, command, w) ==
    IF command.stdout = <<>> THEN [st EXCEPT !.stdout = Inherit]
    ELSE LET redir == command.stdout[1]
             file == redir.file
         IN  IF redir.t = "FdOutput"
             THEN IF ~w.writable THEN [st EXCEPT !.k = "err"]
                  ELSE IF redir.fd = 1
                  THEN [st EXCEPT !.files = create(@, file),
                                  !.stdout = FileOut(file, FALSE)]
                  ELSE IF redir.fd = 2
                  THEN [st EXCEPT !.files = create(@, file),
                                  !.stderr = FileOut(file, FALSE)]
                  ELSE [st EXCEPT !.files = create(@, file)]
             ELSE IF redir.t \in {"Output", "Combined"}
             THEN IF is_process_subst(file, ">")
                  THEN IF w.spawn_ok THEN [st EXCEPT !.stdout = Subprocess]
                       ELSE [st EXCEPT !.k = "err"]
                  ELSE IF ~w.writable THEN [st EXCEPT !.k = "err"]
                  ELSE [st EXCEPT !.files = create(@, file),
                                  !.stdout = FileOut(file, FALSE)]
             ELSE IF redir.t = "Append"
             THEN IF ~w.writable THEN [st EXCEPT !.k = "err"]
                  ELSE [st EXCEPT !.files = open_append(@, file),
                                  !.stdout = FileOut(file, TRUE)]
             ELSE st

\* the set up of the standard error
stderr_setup(st, command, w) ==
    IF st.k # "ok" THEN st
    ELSE IF command.stderr = <<>> THEN [st EXCEPT !.stderr = Inherit]
    ELSE LET redir == command.stderr[1]
             file == redir.file
         IN  IF redir.t \in {"Error", "Combined"}
             THEN IF ~w.writable THEN [st EXCEPT !.k = "err"]
                  ELSE [st EXCEPT !.files = create(@, file),
                                  !.stderr = FileOut(file, FALSE)]
             ELSE IF redir.t = "ErrorAppend"
             THEN IF ~w.writable THEN [st EXCEPT !.k = "err"]
                  ELSE [st EXCEPT !.files = open_append(@, file),
                                  !.stderr = FileOut(file, TRUE)]
             ELSE st

\* the file after text has been written to it from offset 0
overwritten(old, text) == text \o SubSeq(old, Len(text) + 1, Len(old))

\* the files after the child has written text to the stream
written(files, stream, text) ==
    IF stream.to # "out" THEN files
    ELSE [files EXCEPT ![stream.path] =
              IF stream.append THEN @ \o text ELSE overwritten(@, text)]

\* what reaches the standard output of the shell
inherited(stream, text) == IF stream.to = "inherit" THEN text ELSE <<>>

\* process.status(): the child runs with the streams of the set up
status_of(st, w) ==
    IF st.k # "ok" THEN Outcome("err", st.files, <<>>, <<>>)
    ELSE IF ~w.spawn_ok THEN Outcome("err", st.files, <<>>, <<>>)
    ELSE Outcome(IF w.exit_ok THEN "ok" ELSE "err",
                 IF w.err_first
                 THEN written(written(st.files, st.stderr, w.errout),
                              st.stdout, w.out)
                 ELSE written(written(st.files, st.stdout, w.out),
                              st.stderr, w.errout),
                 inherited(st.stdout, w.out),
                 <<st.stdin>>)

\* Executor::execute_external
execute_external(command, w) ==
    IF stdin_setup(command, w).k # "ok"
    THEN Outcome("err", w.files, <<>>, <<>>)
    ELSE status_of(
           stderr_setup(
             stdout_setup(Setup("ok", w.files, stdin_setup(command, w).v,
                                Inherit, Inherit),
                          command, w),
             command, w),
           w)

\* Executor::execute
execute(command, w) ==
    IF ends_with(command.name, ZIRON) /\ command.name \in DOMAIN w.files
    THEN Outcome("err", w.files, <<>>, <<>>)
    ELSE IF is_builtin(command.name)
    THEN Outcome(execute_builtin(command,
                                 Len(command.args) >= 2
                                 /\ command.args[2] \in DOMAIN w.files),
                 w.files, builtin_output(command, w), <<>>)
    ELSE execute_external(command, w)

(***************************************************************************)
(* The lines a session reads and the files of the file system              *)
(***************************************************************************)
L_blank == <<" ">>

L_true == <<"t", "r", "u", "e">>

L_false == <<"f", "a", "l", "s", "e">>

\* ls | false | true
L_three ==
    <<"l", "s", " ", "|", " ", "f", "a", "l", "s", "e", " ", "|", " ",
      "t", "r", "u", "e">>

\* ls &
L_background == <<"l", "s", " ", "&">>

L_jobs == <<"j", "o", "b", "s">>

L_fg == <<"f", "g">>

L_fg_plus == <<"f", "g", " ", "%", "+">>

L_bg == <<"b", "g", " ", "%", "1">>

L_wait == <<"w", "a", "i", "t", " ", "%", "1">>

L_kill1 == <<"k", "i", "l", "l", " ", "%", "1">>

L_kill2 == <<"k", "i", "l", "l", " ", "%", "2">>

L_script_a == <<"a", ".", "z", "i", "r", "o", "n">>

L_script_f == <<"f", ".", "z", "i", "r", "o", "n">>

\* source s
L_source == <<"s", "o", "u", "r", "c", "e", " ", "s">>

\* | true
L_lead_pipe == <<"|", " ", "t", "r", "u", "e">>

\* true | 'a
L_unclosed == <<"t", "r", "u", "e", " ", "|", " ", "'", "a">>

\* true | $(x)
L_subst == <<"t", "r", "u", "e", " ", "|", " ", "$", "(", "x", ")">>

L_exit == <<"e", "x", "i", "t">>

\* test a = b
L_test == <<"t", "e", "s", "t", " ", "a", " ", "=", " ", "b">>

InputLines ==
    {L_blank, L_true, L_false, L_three, L_background, L_jobs, L_fg,
     L_fg_plus, L_bg, L_wait, L_kill1, L_kill2, L_script_a, L_script_f,
     L_source, L_lead_pipe, L_unclosed, L_subst, L_exit, L_test}

\* the readable files, each the sequence of its lines (content.lines()):
\* a.ziron ends with a line that succeeds, f.ziron with a line that fails,
\* s starts with a line that does not parse
Files ==
    (L_script_a :> << <<"#", " ", "c">>, L_false, <<>>,
                      <<" ", " ", "#", " ", "d">>, <<" ">> \o L_true >>)
    @@ (L_script_f :> <<L_true, L_false>>)
    @@ (<<"s">> :> <<L_unclosed, <<"#", " ", "c">>, L_true>>)

exists(path) == path \in DOMAIN Files

RECURSIVE file_lines(_)
file_lines(names) ==
    IF names = {} THEN {}
    ELSE LET n == CHOOSE x \in names : TRUE
         IN  {Files[n][i] : i \in 1..Len(Files[n])} \cup file_lines(names \ {n})

\* every line that execute_line can be given, trimmed
AllLines == {trim(l) : l \in InputLines \cup file_lines(DOMAIN Files)}

\* the expansion context of a line: script_args is never set by the shell,
\* sh tells whether `sh` can be spawned while the line is parsed
Cx(sh) ==
    [script_args |-> <<>>, env |-> (<<"b">> :> <<"v">>), sh_ok |-> sh,
     cwd |-> << <<"/">> >>, glob |-> <<>>, overflow_checks |-> TRUE]

\* Parser::parse_with_context on the lines of the model
ParseTable ==
    [sh \in BOOLEAN |-> [l \in AllLines |-> parse_with_context(l, Cx(sh))]]

\* whether the answer of the environment matters to the line
ShChoices(line) ==
    IF contains(line, <<"$", "(">>) \/ contains(line, <<BACKTICK>>)
    THEN BOOLEAN ELSE {TRUE}

(***************************************************************************)
(* The session (shell.rs)                                                  *)
(***************************************************************************)
\* the job table keeps at most this many jobs of a session
MaxJobs == 2

\* the process ids the system hands out
NPids == 2

Pids == 1..NPids

\* ExitStatus::code() of a background process that try_wait finds exited
ExitCodes == {<<0>>}

VARIABLES
    jobs,            \* job_manager.jobs
    next_id,         \* job_manager.next_id
    returned,        \* the ids add_job has returned, in the order of the calls
    procs,           \* each pid: "free", "running" or "zombie" (has exited,
                     \* has not been waited for)
    last_exit_code,  \* ZironShell.last_exit_code
    stack,           \* the calls of execute_line, execute_script and the
                     \* source builtin that are in progress, innermost first
    mode,            \* "read": run is at readline; "line": readline has
                     \* returned a line; "run": the line is being executed;
                     \* "ended": the process has ended
    cause,           \* why the process has ended
    status,          \* the result of the last line of the session loop
    cur,             \* the line readline has returned, until execute_line
                     \* is called with it
    got,             \* the last call of get_job, when the last step made one
    segs,            \* the segments of the line given to the parser
    parsed           \* the result of the parser on that line

vars ==
    <<jobs, next_id, returned, procs, last_exit_code, stack, mode, cause,
      status, cur, got, segs, parsed>>

session_vars ==
    <<jobs, next_id, returned, procs, last_exit_code, stack, mode, cause,
      status, cur, got>>

\* the frames of the stack
LineFrame(line, sh, cmds) ==
    [t |-> "line", line |-> line, sh |-> sh, cmds |-> cmds, file |-> <<>>,
     ran |-> <<>>, code |-> 0]

ScriptFrame(file) ==
    [t |-> "script", line |-> <<>>, sh |-> TRUE, cmds |-> <<>>, file |-> file,
     ran |-> <<>>, code |-> 0]

SourceFrame(file) ==
    [t |-> "source", line |-> <<>>, sh |-> TRUE, cmds |-> <<>>, file |-> file,
     ran |-> <<>>, code |-> 0]

\* the index of the last entry of ran, 0 when ran is empty
last_index(ran) == IF ran = <<>> THEN 0 ELSE ran[Len(ran)][1]

\* the lines the loops of execute_script and of source execute
executable(line) == trim(line) # <<>> /\ ~starts_with(trim(line), <<"#">>)

\* the first executable line of the file after line i, 0 when there is none
RECURSIVE next_line(_, _)
next_line(lines, i) ==
    IF i >= Len(lines) THEN 0
    ELSE IF executable(lines[i + 1]) THEN i + 1
    ELSE next_line(lines, i + 1)

\* ZironShell.aliases: no line of the model defines an alias
aliases == <<>>

\* ZironShell::expand_aliases
expand_aliases(line) ==
    LET words == split_whitespace(line, <<>>)
    IN  IF words = <<>> THEN line
        ELSE IF words[1] \in DOMAIN aliases
        THEN IF Len(words) > 1
             THEN aliases[words[1]] \o <<" ">> \o join(Tail(words), <<" ">>)
             ELSE aliases[words[1]]
        ELSE line

\* the test of execute_line for the execution of a script file
is_script_line(expanded_line) ==
    LET words == split_whitespace(expanded_line, <<>>)
    IN  /\ \/ ends_with(expanded_line, ZIRON)
           \/ /\ contains(expanded_line, <<" ">>)
              /\ words # <<>> /\ ends_with(words[1], ZIRON)
        /\ exists(IF words = <<>> THEN expanded_line ELSE words[1])

script_path(expanded_line) == split_whitespace(expanded_line, <<>>)[1]

\* What a call of execute_line returns to its caller, the frame f of an
\* execute_script or of a source: the line is recorded with its result, and
\* execute_script sets script_exit_code to 1 on an error and to
\* last_exit_code (lec) otherwise.
caller_resume(f, res, lec) ==
    LET idx == next_line(Files[f.file], last_index(f.ran))
    IN  IF f.t = "script"
        THEN [f EXCEPT !.ran = Append(@, <<idx, res>>),
                       !.code = IF res = "err" THEN 1 ELSE lec]
        ELSE [f EXCEPT !.ran = Append(@, <<idx, res>>)]

\* The return of execute_line with result res: to the frame on top of stk,
\* or to the session loop, which prints an error and reads the next line.
deliver(stk, res, lec) ==
    IF stk = <<>>
    THEN [stack |-> <<>>, lec |-> lec, mode |-> "read", cause |-> "",
          status |-> res]
    ELSE [stack |-> <<caller_resume(Head(stk), res, lec)>> \o Tail(stk),
          lec |-> lec, mode |-> "run", cause |-> "", status |-> "none"]

\* The call of execute_line made with the stack stk, up to the first command
\* of the line: an empty line, a script, a parse error, a panic of the
\* parser, or the loop over the commands.
run_commands(expanded_line, sh, stk, lec, commands) ==
    IF commands.k = "err" THEN deliver(stk, "err", lec)
    ELSE IF commands.k = "panic"
    THEN [stack |-> stk, lec |-> lec, mode |-> "ended", cause |-> "panic",
          status |-> "none"]
    ELSE IF commands.v = <<>> THEN deliver(stk, "ok", lec)
    ELSE [stack |-> <<LineFrame(expanded_line, sh, commands.v)>> \o stk,
          lec |-> lec, mode |-> "run", cause |-> "", status |-> "none"]

execute_expanded(expanded_line, sh, stk, lec) ==
    IF is_script_line(expanded_line)
    THEN [stack |-> <<ScriptFrame(script_path(expanded_line))>> \o stk,
          lec |-> lec, mode |-> "run", cause |-> "", status |-> "none"]
    ELSE run_commands(expanded_line, sh, stk, lec,
                      ParseTable[sh][expanded_line])

execute_trimmed(line, sh, stk, lec) ==
    IF line = <<>> THEN deliver(stk, "ok", 0)
    ELSE execute_expanded(expand_aliases(line), sh, stk, lec)

execute_line(line, sh, stk, lec) == execute_trimmed(trim(line), sh, stk, lec)

\* the state after a call or a return
Becomes(m) ==
    /\ stack' = m.stack
    /\ last_exit_code' = m.lec
    /\ mode' = m.mode
    /\ cause' = m.cause
    /\ status' = m.status

Init ==
    /\ jobs = new.jobs
    /\ next_id = new.next_id
    /\ returned = <<>>
    /\ procs = [p \in Pids |-> "free"]
    /\ last_exit_code = 0
    /\ stack = <<>>
    /\ mode = "read"
    /\ cause = ""
    /\ status = "none"
    /\ cur = <<>>
    /\ got = <<>>
    /\ segs = <<>>
    /\ parsed = <<>>

\* run: readline returns a line; sh tells whether `sh` can be spawned while
\* the line is parsed
ReadLine ==
    /\ mode = "read"
    /\ \E line \in InputLines : \E sh \in ShChoices(line) :
         cur' = <<[line |-> line, sh |-> sh]>>
    /\ mode' = "line"
    /\ status' = "none"
    /\ got' = <<>>
    /\ UNCHANGED <<jobs, next_id, returned, procs, last_exit_code, stack,
                   cause, segs, parsed>>

\* run: execute_line is called with the line
ExecuteLine ==
    /\ mode = "line"
    /\ Becomes(execute_line(cur[1].line, cur[1].sh, <<>>, last_exit_code))
    /\ cur' = <<>>
    /\ got' = <<>>
    /\ UNCHANGED <<jobs, next_id, returned, procs, segs, parsed>>

\* run: readline returns Eof, the loop ends
ReadEof ==
    /\ mode = "read"
    /\ mode' = "ended"
    /\ cause' = "eof"
    /\ got' = <<>>
    /\ UNCHANGED <<jobs, next_id, returned, procs, last_exit_code, stack,
                   status, cur, segs, parsed>>

\* run: readline returns another error, the loop ends
ReadError ==
    /\ mode = "read"
    /\ mode' = "ended"
    /\ cause' = "read_error"
    /\ got' = <<>>
    /\ UNCHANGED <<jobs, next_id, returned, procs, last_exit_code, stack,
                   status, cur, segs, parsed>>

\* the process of a background command exits; nobody waits for it
ProcExit ==
    /\ mode \in {"read", "run"}
    /\ \E p \in Pids :
         /\ procs[p] = "running"
         /\ procs' = [procs EXCEPT ![p] = "zombie"]
    /\ got' = <<>>
    /\ UNCHANGED <<jobs, next_id, returned, last_exit_code, stack, mode,
                   cause, status, cur, segs, parsed>>

(***************************************************************************)
(* execute_line: the loop over the commands of the line                    *)
(***************************************************************************)
\* a variant of line_done without the ? of the loop: the loop ends at the
\* last command only
line_done_at_end(cmds, ran) == Len(ran) = Len(cmds)

\* the loop has ended: a command returned an error (the ? operator) or every
\* command was executed
line_done(cmds, ran) ==
    \/ ran # <<>> /\ ran[Len(ran)][2] = "err"
    \/ Len(ran) = Len(cmds)

\* what execute_line returns when the loop has ended
line_result(ran) ==
    IF ran # <<>> /\ ran[Len(ran)][2] = "err" THEN "err" ELSE "ok"

\* the loop is at a command
AtCommand ==
    /\ mode = "run"
    /\ stack # <<>>
    /\ Head(stack).t = "line"
    /\ ~line_done(Head(stack).cmds, Head(stack).ran)

\* the command the loop is at
command == Head(stack).cmds[Len(Head(stack).ran) + 1]

is_background(c) == c.args # <<>> /\ c.args[Len(c.args)] = <<"&">>

\* the stack after the command the loop is at returned res
Ran(res) ==
    <<[Head(stack) EXCEPT !.ran = Append(@, <<Len(@) + 1, res>>)]>>
    \o Tail(stack)

\* the command returns res and nothing else changes
Returns(res) ==
    /\ stack' = Ran(res)
    /\ UNCHANGED <<last_exit_code, mode, cause, status, cur, segs, parsed>>

\* execute_line returns to its caller
LineReturn ==
    /\ mode = "run"
    /\ stack # <<>>
    /\ Head(stack).t = "line"
    /\ line_done(Head(stack).cmds, Head(stack).ran)
    /\ Becomes(deliver(Tail(stack), line_result(Head(stack).ran),
                       last_exit_code))
    /\ got' = <<>>
    /\ UNCHANGED <<jobs, next_id, returned, procs, cur, segs, parsed>>

(***************************************************************************)
(* execute_builtin_with_state: jobs, fg, bg, kill, wait, source            *)
(***************************************************************************)
\* a variant of jobs_builtin that polls the processes of the Running jobs
jobs_builtin_polling(js) ==
    [i \in 1..Len(js) |->
        IF js[i].status = Running /\ procs[js[i].pid] = "zombie"
        THEN [js[i] EXCEPT !.status = Done(<<0>>)] ELSE js[i]]

\* the job table after the jobs builtin: it prints list_jobs() and asks no
\* process for its state
jobs_builtin(js) == list_jobs(js)

\* command.args.first().unwrap_or("+")
spec_or_current(c) == IF c.args = <<>> THEN <<"+">> ELSE c.args[1]

GetJob(by, spec) == <<[by |-> by, spec |-> spec, job |-> get_job(jobs, spec)]>>

ExecJobs ==
    /\ AtCommand
    /\ command.name = W_jobs
    /\ jobs' = jobs_builtin(jobs)
    /\ got' = <<>>
    /\ Returns("ok")
    /\ UNCHANGED <<next_id, returned, procs>>

ExecFg ==
    /\ AtCommand
    /\ command.name = W_fg
    /\ LET spec == spec_or_current(command)
           job == get_job(jobs, spec)
       IN  /\ got' = GetJob("fg", spec)
           /\ IF job # <<>> /\ job[1].status \in {Stopped, Running}
              THEN Returns("ok") ELSE Returns("err")
    /\ UNCHANGED <<jobs, next_id, returned, procs>>

ExecBg ==
    /\ AtCommand
    /\ command.name = W_bg
    /\ LET spec == spec_or_current(command)
           job == get_job(jobs, spec)
       IN  /\ got' = GetJob("bg", spec)
           /\ IF job # <<>> /\ job[1].status = Stopped
              THEN /\ jobs' = update_job_status(jobs, job[1].pid, Running)
                   /\ Returns("ok")
              ELSE IF job # <<>> /\ job[1].status = Running
              THEN jobs' = jobs /\ Returns("ok")
              ELSE jobs' = jobs /\ Returns("err")
    /\ UNCHANGED <<next_id, returned, procs>>

\* kill %N marks the job of the pid Done(Some(130)) and removes the job of
\* the id; no signal is sent.  Any other kill goes to Executor::execute, whose
\* execute_builtin knows no kill.
ExecKill ==
    /\ AtCommand
    /\ command.name = W_kill
    /\ IF command.args = <<>>
       THEN jobs' = jobs /\ got' = <<>> /\ Returns("ok")
       ELSE LET spec == command.args[1]
                job == get_job(jobs, spec)
            IN  IF starts_with(spec, <<"%">>)
                THEN /\ got' = GetJob("kill", spec)
                     /\ IF job # <<>>
                        THEN /\ jobs' = remove_job(
                                  update_job_status(jobs, job[1].pid,
                                                    Done(<<130>>)),
                                  job[1].id)
                             /\ Returns("ok")
                        ELSE jobs' = jobs /\ Returns("err")
                ELSE /\ jobs' = jobs /\ got' = <<>>
                     /\ Returns(execute_builtin(command, FALSE))
    /\ UNCHANGED <<next_id, returned, procs>>

ExecWait ==
    /\ AtCommand
    /\ command.name = W_wait
    /\ IF command.args # <<>> /\ starts_with(command.args[1], <<"%">>)
       THEN /\ got' = GetJob("wait", command.args[1])
            /\ IF get_job(jobs, command.args[1]) # <<>>
               THEN Returns("ok") ELSE Returns("err")
       ELSE got' = <<>> /\ Returns("ok")
    /\ UNCHANGED <<jobs, next_id, returned, procs>>

\* source: without a path it returns Ok; a file that cannot be read is an
\* error; otherwise the loop over the lines of the file starts
ExecSource ==
    /\ AtCommand
    /\ command.name = W_source
    /\ IF command.args = <<>> THEN Returns("ok")
       ELSE IF ~exists(command.args[1]) THEN Returns("err")
       ELSE /\ stack' = <<SourceFrame(command.args[1])>> \o stack
            /\ UNCHANGED <<last_exit_code, mode, cause, status, cur, segs,
                           parsed>>
    /\ got' = <<>>
    /\ UNCHANGED <<jobs, next_id, returned, procs>>

(***************************************************************************)
(* execute_line: the other commands                                        *)
(***************************************************************************)
\* the arm of the commands that are neither a builtin with state nor cd
OtherCommand ==
    /\ AtCommand
    /\ command.name \notin StateBuiltins \cup {W_cd}

\* Executor::execute on a builtin; exit ends the process
ExecuteBuiltin ==
    /\ OtherCommand
    /\ ~is_background(command)
    /\ ~(ends_with(command.name, ZIRON) /\ exists(command.name))
    /\ is_builtin(command.name)
    /\ \E is_file \in BOOLEAN :
         LET res == execute_builtin(command, is_file)
         IN  IF res = "exit"
             THEN /\ mode' = "ended"
                  /\ cause' = "exit"
                  /\ UNCHANGED <<stack, last_exit_code, status, cur, segs,
                                 parsed>>
             ELSE Returns(res)
    /\ got' = <<>>
    /\ UNCHANGED <<jobs, next_id, returned, procs>>

\* Executor::execute on an external command: the process cannot be spawned
\* or exits with a failure (an error), or exits with success; the name of an
\* existing script is an error
ExecuteExternal ==
    /\ OtherCommand
    /\ ~is_background(command)
    /\ ~is_builtin(command.name) \/ (ends_with(command.name, ZIRON) /\ exists(command.name))
    /\ \E res \in {"ok", "err"} :
         /\ ends_with(command.name, ZIRON) /\ exists(command.name) => res = "err"
         /\ Returns(res)
    /\ got' = <<>>
    /\ UNCHANGED <<jobs, next_id, returned, procs>>

\* format!("{} {}", command.name, command.args.join(" "))
command_str(c) == c.name \o <<" ">> \o join(c.args, <<" ">>)

\* execute_background of the command without its last argument: the spawn
\* fails, or the child gets a free pid, the job is added, and try_wait tells
\* that the child has exited (it is reaped and its pid is free again), that
\* it is running, or fails
ExecBackground ==
    /\ OtherCommand
    /\ is_background(command)
    /\ \/ /\ Returns("err")
          /\ UNCHANGED <<jobs, next_id, returned, procs>>
       \/ /\ next_id <= MaxJobs
          /\ \E pid \in Pids :
               /\ procs[pid] = "free"
               /\ LET bg_command ==
                          [command EXCEPT !.args = SubSeq(@, 1, Len(@) - 1)]
                      jm == add_job([jobs |-> jobs, next_id |-> next_id],
                                    command_str(bg_command), pid)
                  IN  /\ next_id' = jm.next_id
                      /\ returned' = Append(returned, jm.id)
                      /\ \/ \E code \in ExitCodes :
                              /\ jobs' = update_job_status(jm.jobs, pid,
                                                           Done(code))
                              /\ procs' = procs
                         \/ /\ jobs' = jm.jobs
                            /\ procs' = [procs EXCEPT ![pid] = "running"]
                         \/ /\ jobs' = update_job_status(jm.jobs, pid, Stopped)
                            /\ procs' = [procs EXCEPT ![pid] = "running"]
          /\ Returns("ok")
    /\ got' = <<>>

(***************************************************************************)
(* execute_script and the loop of the source builtin                       *)
(***************************************************************************)
\* a variant of file_done that ends the loop at the first line that failed
file_done_on_error(lines, ran) ==
    \/ ran # <<>> /\ ran[Len(ran)][2] = "err"
    \/ next_line(lines, last_index(ran)) = 0

\* the loop over the lines of the file has ended
file_done(lines, ran) == next_line(lines, last_index(ran)) = 0

AtFile(t) ==
    /\ mode = "run"
    /\ stack # <<>>
    /\ Head(stack).t = t

\* the loop calls execute_line with the next executable line
FileStep(t) ==
    /\ AtFile(t)
    /\ LET f == Head(stack)
           lines == Files[f.file]
       IN  /\ ~file_done(lines, f.ran)
           /\ \E sh \in ShChoices(lines[next_line(lines, last_index(f.ran))]) :
                Becomes(execute_line(lines[next_line(lines, last_index(f.ran))],
                                     sh, stack, last_exit_code))
    /\ got' = <<>>
    /\ UNCHANGED <<jobs, next_id, returned, procs, cur, segs, parsed>>

ScriptStep == FileStep("script")

SourceStep == FileStep("source")

\* execute_script returns: last_exit_code becomes script_exit_code, and the
\* execute_line that called it returns Ok
ScriptDone ==
    /\ AtFile("script")
    /\ file_done(Files[Head(stack).file], Head(stack).ran)
    /\ Becomes(deliver(Tail(stack), "ok", Head(stack).code))
    /\ got' = <<>>
    /\ UNCHANGED <<jobs, next_id, returned, procs, cur, segs, parsed>>

\* the source builtin returns Ok to the loop over the commands of its line
SourceDone ==
    /\ AtFile("source")
    /\ file_done(Files[Head(stack).file], Head(stack).ran)
    /\ LET caller == stack[2]
       IN  stack' = <<[caller EXCEPT !.ran = Append(@, <<Len(@) + 1, "ok">>)]>>
                    \o Tail(Tail(stack))
    /\ got' = <<>>
    /\ UNCHANGED <<jobs, next_id, returned, procs, last_exit_code, mode,
                   cause, status, cur, segs, parsed>>

Next ==
    \/ ReadLine
    \/ ExecuteLine
    \/ ReadEof
    \/ ReadError
    \/ ProcExit
    \/ LineReturn
    \/ ExecJobs
    \/ ExecFg
    \/ ExecBg
    \/ ExecKill
    \/ ExecWait
    \/ ExecSource
    \/ ExecuteBuiltin
    \/ ExecuteExternal
    \/ ExecBackground
    \/ ScriptStep
    \/ ScriptDone
    \/ SourceStep
    \/ SourceDone

Spec == Init /\ [][Next]_vars

(***************************************************************************)
(* The parser on its own: a line is put together from segments, joined by  *)
(* unquoted pipes, and parsed.                                             *)
(***************************************************************************)
\* a line has at most this many segments
MaxSegments == 3

\* the segments: a, b c, '', > f, "x|y"
Fragments ==
    { <<"a">>, <<"b", " ", "c">>, <<"'", "'">>, <<">", " ", "f">>,
      <<"\"", "x", "|", "y", "\"">> }

AddSegment ==
    /\ parsed = <<>>
    /\ Len(segs) < MaxSegments
    /\ \E f \in Fragments : segs' = Append(segs, f)
    /\ UNCHANGED <<session_vars, parsed>>

\* Parser::parse on the line
Parse ==
    /\ parsed = <<>>
    /\ segs # <<>>
    /\ parsed' = <<parse_with_context(join(segs, <<" ", "|", " ">>), Cx(TRUE))>>
    /\ UNCHANGED <<session_vars, segs>>

NextParse == AddSegment \/ Parse

SpecParse == Init /\ [][NextParse]_vars

(***************************************************************************)
(* The tokenizer on its own: a segment is put together character by        *)
(* character and tokenized.  segs holds the characters, parsed the result. *)
(***************************************************************************)
\* a segment has at most this many characters
MaxChars == 4

\* two letters, the white space characters, the quotes and the backslash
TokenChars == {"a", "b", " ", "\t", "\n", "'", "\"", "\\"}

AddChar ==
    /\ parsed = <<>>
    /\ Len(segs) < MaxChars
    /\ \E c \in TokenChars : segs' = Append(segs, <<c>>)
    /\ UNCHANGED <<session_vars, parsed>>

\* Parser::tokenize on the segment
Tokenize ==
    /\ parsed = <<>>
    /\ parsed' = <<tokenize(concat(segs), Cx(TRUE))>>
    /\ UNCHANGED <<session_vars, segs>>

NextTokenize == AddChar \/ Tokenize

SpecTokenize == Init /\ [][NextTokenize]_vars

(***************************************************************************)
(* The expansion on its own: a token is chosen and expanded in a chosen    *)
(* context.  segs holds the token, parsed the call and its result.         *)
(***************************************************************************)
\* a brace group has at most this many alternatives
MaxItems == 2

\* the ends of a numeric range are at most this far from 0, or at the end of
\* i32
MaxNumber == 2

\* the variables: b is set in some environments, u in none
Names == { <<"b">>, <<"u">> }

\* the values of b: v, x y, {a,b}
Values == { <<"v">>, <<"x", " ", "y">>, <<"{", "a", ",", "b", "}">> }

\* the environments: b is unset or has one of the values
Envs == { <<>> } \cup { (<<"b">> :> v) : v \in Values }

\* the contexts of an expansion (see env_var): last_exit_code is the last
\* exit code the shell hands to the parser
Contexts ==
    [script_args : { <<>>, << <<"p">>, <<"q">> >> },
     env : Envs,
     sh_ok : BOOLEAN,
     cwd : { << <<"/">> >> },
     glob : { <<>> },
     overflow_checks : BOOLEAN,
     last_exit_code : {0, 1}]

VarTokens ==
    { <<"$">> \o n : n \in Names }
    \cup { <<"$", "?">>, <<"$", "#">>, <<"x", "$", "?">> }

\* none, :-d, ?m, :?m
Modifiers == { <<>>, <<":", "-", "d">>, <<"?", "m">>, <<":", "?", "m">> }

BracedToken(n, m) == <<"$", "{">> \o n \o m \o <<"}">>

\* 7, 2+3, 2*3, 2+
ArithExprs == { <<"7">>, <<"2", "+", "3">>, <<"2", "*", "3">>, <<"2", "+">> }

ArithToken(e) == <<"$", "(", "(">> \o e \o <<")", ")">>

Affixes == { <<>>, <<"x">>, <<"x", "y">> }

ItemLists == UNION { [1..n -> { <<"a">>, <<"b">> }] : n \in 1..MaxItems }

BraceToken(p, items, sfx) == p \o <<"{">> \o join(items, <<",">>) \o <<"}">> \o sfx

\* the ends of the ranges: near 0, and at the end of i32
RangeEnds ==
    ((0 - MaxNumber)..MaxNumber) \X ((0 - MaxNumber)..MaxNumber)
    \cup { <<I32_MAX - 1, I32_MAX>>, <<I32_MAX, I32_MAX>>,
           <<I32_MAX, I32_MAX - 1>> }

RangeToken(e) == <<"{">> \o to_string(e[1]) \o <<".", ".">> \o to_string(e[2]) \o <<"}">>

\* {c, a{b, {a,b, {a,b}{c, x{a,b}y{c: tokens with a { that nothing closes
UnbalancedTokens ==
    { <<"{", "c">>, <<"a", "{", "b">>, <<"{", "a", ",", "b">>,
      <<"{", "a", ",", "b", "}", "{", "c">>,
      <<"x", "{", "a", ",", "b", "}", "y", "{", "c">> }

ExpandTokens ==
    VarTokens
    \cup UnbalancedTokens
    \cup { BracedToken(n, m) : n \in Names, m \in Modifiers }
    \cup { ArithToken(e) : e \in ArithExprs }
    \cup { BraceToken(p, l, sfx) : p \in Affixes, l \in ItemLists, sfx \in Affixes }
    \cup { RangeToken(e) : e \in RangeEnds }

ChooseToken ==
    /\ segs = <<>>
    /\ \E t \in ExpandTokens : segs' = <<t>>
    /\ UNCHANGED <<session_vars, parsed>>

\* the call op was made in the context cx and returned r
Call(op, cx, r) == <<[op |-> op, cx |-> cx, r |-> r]>>

ECHO == <<"e", "c", "h", "o", " ">>

\* Parser::parse_with_context on the line `echo TOKEN`
ParseEcho ==
    /\ segs # <<>> /\ parsed = <<>>
    /\ \E cx \in Contexts :
         parsed' = Call("parse", cx, parse_with_context(ECHO \o segs[1], cx))
    /\ UNCHANGED <<session_vars, segs>>

\* Parser::expand_token on the token
ExpandToken ==
    /\ segs # <<>> /\ parsed = <<>>
    /\ \E cx \in Contexts :
         parsed' = Call("expand_token", cx, expand_token(segs[1], cx))
    /\ UNCHANGED <<session_vars, segs>>

\* Parser::expand_brace on the token
ExpandBrace ==
    /\ segs # <<>> /\ parsed = <<>>
    /\ \E cx \in Contexts :
         parsed' = Call("expand_brace", cx, in_build(expand_brace(segs[1]), cx))
    /\ UNCHANGED <<session_vars, segs>>

NextExpand == ChooseToken \/ ParseEcho \/ ExpandToken \/ ExpandBrace

SpecExpand == Init /\ [][NextExpand]_vars

(***************************************************************************)
(* Expansion applied twice: a token is put together character by           *)
(* character, expanded, and the result is expanded again.  segs holds the  *)
(* characters, parsed the calls in their order.                            *)
(***************************************************************************)
\* a token has at most this many characters
MaxTokenLen == 3

\* two letters, characters no expansion looks for, and $ { ~ *
ExpandChars == {"a", "b", "}", ",", "\\", "(", "$", "{", "~", "*"}

\* HOME and b are set, * matches the file f, sh can be started or not
ReexpandContexts ==
    [script_args : { <<>> },
     env : { (<<"b">> :> <<"v">>) @@ (HOME :> <<"/", "h">>) },
     sh_ok : BOOLEAN,
     cwd : { << <<"/">> >> },
     glob : { (<<"*">> :> << <<"f">> >>) },
     overflow_checks : { TRUE }]

AddTokenChar ==
    /\ parsed = <<>>
    /\ Len(segs) < MaxTokenLen
    /\ \E c \in ExpandChars : segs' = Append(segs, <<c>>)
    /\ UNCHANGED <<session_vars, parsed>>

\* Parser::expand_token on the token
ExpandOnce ==
    /\ parsed = <<>>
    /\ \E cx \in ReexpandContexts :
         parsed' = Call("expand_token", cx, expand_token(concat(segs), cx))
    /\ UNCHANGED <<session_vars, segs>>

\* Parser::expand_token on the result of the first call
ExpandAgain ==
    /\ Len(parsed) = 1
    /\ parsed[1].r.k = "ok"
    /\ parsed' = parsed \o Call("expand_token", parsed[1].cx,
                                expand_token(parsed[1].r.v, parsed[1].cx))
    /\ UNCHANGED <<session_vars, segs>>

NextReexpand == AddTokenChar \/ ExpandOnce \/ ExpandAgain

SpecReexpand == Init /\ [][NextReexpand]_vars

(***************************************************************************)
(* The executor on its own: a command is chosen and executed in a chosen   *)
(* world.  segs holds the command, parsed the world and the outcome.       *)
(***************************************************************************)
F == <<"f">>

G == <<"g">>

W_cat == <<"c", "a", "t">>

\* the command before a pipe
Predecessor == Command(<<"l", "s">>, <<>>, <<>>, <<>>, <<>>, <<>>)

\* none, > f, >> f, 1> f, 2> f (as n>), &> f, >(c)
StdoutRedirections ==
    { <<>>,
      <<Redirection("Output", 0, F)>>,
      <<Redirection("Append", 0, F)>>,
      <<Redirection("FdOutput", 1, F)>>,
      <<Redirection("FdOutput", 3, F)>>,
      <<Redirection("Combined", 0, F)>>,
      <<Redirection("Output", 0, <<">", "(", "c", ")">>)>> }

\* none, 2> f, 2>> f, &> f
StderrRedirections ==
    { <<>>,
      <<Redirection("Error", 0, F)>>,
      <<Redirection("ErrorAppend", 0, F)>>,
      <<Redirection("Combined", 0, F)>> }

\* none, < g, <<< a, << d, <<- d, <(c), 0< g
StdinRedirections ==
    { <<>>,
      <<Redirection("Input", 0, G)>>,
      <<Redirection("Input", 0, <<"<", "<", "<", "a">>)>>,
      <<Redirection("Input", 0, <<"<", "<", "d">>)>>,
      <<Redirection("Input", 0, <<"<", "<", "-", "d">>)>>,
      <<Redirection("Input", 0, <<"<", "(", "c", ")">>)>>,
      <<Redirection("FdInput", 0, G)>> }

\* the commands: two builtins that print, two that do not, and an external
\* command
ExecCommands ==
    [name : {W_echo, W_pwd, W_true, W_false, W_cat},
     args : { << <<"a">>, <<"b">> >> },
     stdin : { <<>>, <<Predecessor>> },
     stdout : StdoutRedirections,
     stderr : StderrRedirections,
     stdin_file : StdinRedirections]

\* the files that exist: f with an earlier content or not, g or not
FileSystems ==
    { <<>>, (F :> <<"o", "l", "d">>), (G :> <<"i">>),
      (F :> <<"o", "l", "d">>) @@ (G :> <<"i">>) }

Worlds ==
    [files : FileSystems,
     cwd : { <<"/">> },
     out : { <<"x", "y">> },
     errout : { <<"e">> },
     exit_ok : BOOLEAN,
     spawn_ok : BOOLEAN,
     writable : BOOLEAN,
     err_first : BOOLEAN]

ChooseCommand ==
    /\ segs = <<>>
    /\ \E c \in ExecCommands : segs' = <<c>>
    /\ UNCHANGED <<session_vars, parsed>>

\* Executor::execute on the command
Execute ==
    /\ segs # <<>> /\ parsed = <<>>
    /\ \E w \in Worlds : parsed' = <<[w |-> w, r |-> execute(segs[1], w)]>>
    /\ UNCHANGED <<session_vars, segs>>

NextExecute == ChooseCommand \/ Execute

SpecExecute == Init /\ [][NextExecute]_vars

(***************************************************************************)
(* The redirection parser on its own: a segment is put together token by   *)
(* token and parsed.  segs holds the tokens, parsed the result.            *)
(***************************************************************************)
\* a segment has at most this many tokens
MaxTokens == 3

\* n> and n< with a descriptor that has no arm of its own
FdOps == { <<"3", ">">>, <<"3", "<">> }

\* n>&m
DupTokens == { <<"2", ">", "&", "1">>, <<"1", ">", "&", "2">> }

\* two words, operators with an arm of their own, n>, n< and n>&m
RedirTokens ==
    { <<"a">>, <<"f">>, <<">">>, <<">", ">">>, <<"<">>, <<"<", "<", "<">>,
      <<"2", ">">>, <<"&", ">">> }
    \cup FdOps \cup DupTokens

AddToken ==
    /\ parsed = <<>>
    /\ Len(segs) < MaxTokens
    /\ \E t \in RedirTokens : segs' = Append(segs, t)
    /\ UNCHANGED <<session_vars, parsed>>

\* Parser::parse_with_redirection on the tokens, separated by spaces
Redirect ==
    /\ parsed = <<>>
    /\ parsed' = <<parse_with_redirection(join(segs, <<" ">>), Cx(TRUE))>>
    /\ UNCHANGED <<session_vars, segs>>

NextRedirect == AddToken \/ Redirect

SpecRedirect == Init /\ [][NextRedirect]_vars

(***************************************************************************)
(* Threads that share one JobManager (jobs.rs): each thread makes one call *)
(* on its clone of the manager.  segs holds the threads, each with its     *)
(* call, its position in it, the id it has read and what it returns;       *)
(* parsed holds the table after each change, in the order of the changes.  *)
(* Each lock(), each statement between two locks and the drop of the       *)
(* guards at the return are steps of their own.                            *)
(***************************************************************************)
\* the number of threads
NThreads == 3

\* the calls: add_job with the number of the thread as pid,
\* update_job_status(1, Done(0)), remove_job(1), get_job("+"), list_jobs()
ThreadOps == {"add_job", "update_job_status", "remove_job", "get_job", "list_jobs"}

\* the mutexes whose guard the thread holds at its position
held(t) ==
    IF t.pc \in {"jobs_locked", "acted"} THEN {"jobs"}
    ELSE IF t.pc \in {"both_locked", "read", "bumped", "pushed"}
    THEN {"jobs", "next_id"}
    ELSE {}

\* a variant of can_lock for a mutex that excludes no one
can_lock_always(threads, me, mutex) == TRUE

\* Mutex::lock returns to the thread me when no other thread holds the guard
can_lock(threads, me, mutex) ==
    \A k \in 1..Len(threads) : k # me => mutex \notin held(threads[k])

\* the thread k is at the position pc of the call op
At(k, ops, pc) == k \in 1..Len(segs) /\ segs[k].op \in ops /\ segs[k].pc = pc

\* the thread k moves to the position pc
Moved(k, pc) == segs' = [segs EXCEPT ![k].pc = pc]

\* a thread is started with a clone of the manager and makes its call
StartThread ==
    /\ Len(segs) < NThreads
    /\ \E op \in ThreadOps :
         segs' = Append(segs, [op |-> op, pc |-> "start", pid |-> Len(segs) + 1,
                               id |-> 0, result |-> <<>>])
    /\ UNCHANGED <<session_vars, parsed>>

\* self.jobs.lock().unwrap(), the first statement of every call
LockJobs ==
    \E k \in 1..Len(segs) :
        /\ At(k, ThreadOps, "start")
        /\ can_lock(segs, k, "jobs")
        /\ Moved(k, "jobs_locked")
        /\ UNCHANGED <<session_vars, parsed>>

\* add_job: self.next_id.lock().unwrap()
LockNextId ==
    \E k \in 1..Len(segs) :
        /\ At(k, {"add_job"}, "jobs_locked")
        /\ can_lock(segs, k, "next_id")
        /\ Moved(k, "both_locked")
        /\ UNCHANGED <<session_vars, parsed>>

\* add_job: let id = *next_id
ReadNextId ==
    \E k \in 1..Len(segs) :
        /\ At(k, {"add_job"}, "both_locked")
        /\ segs' = [segs EXCEPT ![k].pc = "read", ![k].id = next_id]
        /\ UNCHANGED <<session_vars, parsed>>

\* add_job: *next_id += 1
BumpNextId ==
    \E k \in 1..Len(segs) :
        /\ At(k, {"add_job"}, "read")
        /\ next_id' = next_id + 1
        /\ Moved(k, "bumped")
        /\ UNCHANGED <<jobs, returned, procs, last_exit_code, stack, mode,
                       cause, status, cur, got, parsed>>

\* add_job: jobs.push(Job { id, command, pid, status: Running })
PushJob ==
    \E k \in 1..Len(segs) :
        /\ At(k, {"add_job"}, "bumped")
        /\ jobs' = Append(jobs, Job(segs[k].id, <<"c">>, segs[k].pid, Running))
        /\ parsed' = Append(parsed, jobs')
        /\ Moved(k, "pushed")
        /\ UNCHANGED <<next_id, returned, procs, last_exit_code, stack, mode,
                       cause, status, cur, got>>

\* add_job returns id: the guards are dropped
ReturnId ==
    \E k \in 1..Len(segs) :
        /\ At(k, {"add_job"}, "pushed")
        /\ returned' = Append(returned, segs[k].id)
        /\ Moved(k, "returned")
        /\ UNCHANGED <<jobs, next_id, procs, last_exit_code, stack, mode,
                       cause, status, cur, got, parsed>>

\* list_jobs: jobs.clone()
CloneJobs ==
    \E k \in 1..Len(segs) :
        /\ At(k, {"list_jobs"}, "jobs_locked")
        /\ segs' = [segs EXCEPT ![k].pc = "acted", ![k].result = list_jobs(jobs)]
        /\ UNCHANGED <<session_vars, parsed>>

\* get_job("+"): the match on spec
FindJob ==
    \E k \in 1..Len(segs) :
        /\ At(k, {"get_job"}, "jobs_locked")
        /\ segs' = [segs EXCEPT ![k].pc = "acted",
                                ![k].result = get_job(jobs, <<"+">>)]
        /\ UNCHANGED <<session_vars, parsed>>

\* update_job_status(1, Done(Some(0))): the status of the job is set
SetStatus ==
    \E k \in 1..Len(segs) :
        /\ At(k, {"update_job_status"}, "jobs_locked")
        /\ jobs' = update_job_status(jobs, 1, Done(<<0>>))
        /\ parsed' = Append(parsed, jobs')
        /\ Moved(k, "acted")
        /\ UNCHANGED <<next_id, returned, procs, last_exit_code, stack, mode,
                       cause, status, cur, got>>

\* remove_job(1): jobs.retain(|j| j.id != id)
RetainJobs ==
    \E k \in 1..Len(segs) :
        /\ At(k, {"remove_job"}, "jobs_locked")
        /\ jobs' = remove_job(jobs, 1)
        /\ parsed' = Append(parsed, jobs')
        /\ Moved(k, "acted")
        /\ UNCHANGED <<next_id, returned, procs, last_exit_code, stack, mode,
                       cause, status, cur, got>>

\* the call returns: the guard is dropped
ReturnFromCall ==
    \E k \in 1..Len(segs) :
        /\ At(k, ThreadOps \ {"add_job"}, "acted")
        /\ Moved(k, "returned")
        /\ UNCHANGED <<session_vars, parsed>>

NextThreads ==
    \/ StartThread
    \/ LockJobs
    \/ LockNextId
    \/ ReadNextId
    \/ BumpNextId
    \/ PushJob
    \/ ReturnId
    \/ CloneJobs
    \/ FindJob
    \/ SetStatus
    \/ RetainJobs
    \/ ReturnFromCall

SpecThreads == Init /\ [][NextThreads]_vars

(***************************************************************************)
(* The arithmetic evaluator on its own: an expression is put together from *)
(* literals and binary operators and evaluated.  segs holds the literals   *)
(* and operators in their order, parsed the result.                        *)
(***************************************************************************)
\* an expression has at most this many operators
MaxOperators == 2

\* 0, 2, 3
Literals == { <<"0">>, <<"2">>, <<"3">> }

\* the classes of the binary operators
OperatorClasses ==
    { { <<"+">>, <<"-">> },
      { <<"*">>, <<"/">>, <<"%">> },
      { <<"<", "<">>, <<">", ">">> },
      { <<"=", "=">>, <<"!", "=">>, <<"<", "=">>, <<">", "=">>, <<"<">>, <<">">> },
      { <<"|">>, <<"^">>, <<"&">> },
      { <<"|", "|">>, <<"&", "&">> } }

BinaryOperators == UNION OperatorClasses

AddLiteral ==
    /\ parsed = <<>>
    /\ Len(segs) % 2 = 0
    /\ \E l \in Literals : segs' = Append(segs, l)
    /\ UNCHANGED <<session_vars, parsed>>

AddOperator ==
    /\ parsed = <<>>
    /\ Len(segs) % 2 = 1
    /\ Len(segs) < 2 * MaxOperators
    /\ \E op \in BinaryOperators : segs' = Append(segs, op)
    /\ UNCHANGED <<session_vars, parsed>>

\* Parser::evaluate_arithmetic on the expression
Evaluate ==
    /\ parsed = <<>>
    /\ Len(segs) % 2 = 1
    /\ parsed' = <<evaluate_arithmetic(concat(segs), Cx(TRUE))>>
    /\ UNCHANGED <<session_vars, segs>>

NextEvaluate == AddLiteral \/ AddOperator \/ Evaluate

SpecEvaluate == Init /\ [][NextEvaluate]_vars

(***************************************************************************)
(* The directory stack (shell.rs): pushd, popd and cd.  segs holds         *)
(* directory_stack, its top last; parsed holds the last call, with the     *)
(* current directory and the stack before it, its result, and the current  *)
(* directory after it.  The shell starts in / with an empty stack.         *)
(***************************************************************************)
\* the stack has at most this many directories
MaxDepth == 3

\* the directories that exist
Directories == { <<"/">>, <<"/", "a">>, <<"/", "b">> }

\* the arguments of pushd and cd: none, /a, /b, and /m, which does not exist
DirArgs == { <<>>, << <<"/", "a">> >>, << <<"/", "b">> >>, << <<"/", "m">> >> }

\* std::env::current_dir()
current_dir == IF parsed = <<>> THEN <<"/">> ELSE parsed[1].cwd

\* the directory stack and the current directory after a builtin, with its
\* result
DirState(r, directory_stack, cwd) ==
    [r |-> r, directory_stack |-> directory_stack, cwd |-> cwd]

\* std::env::set_current_dir(target) after the stack has been changed
set_current_dir(directory_stack, cwd, target) ==
    IF target \in Directories THEN DirState("ok", directory_stack, target)
    ELSE DirState("err", directory_stack, cwd)

\* Vec::pop: the stack without its top
popped(directory_stack) == SubSeq(directory_stack, 1, Len(directory_stack) - 1)

\* the arm "pushd" of execute_builtin_with_state
pushd(directory_stack, cwd, args) ==
    IF args # <<>>
    THEN set_current_dir(Append(directory_stack, cwd), cwd, args[1])
    ELSE IF directory_stack # <<>>
    THEN set_current_dir(Append(Append(popped(directory_stack), cwd), cwd),
                         cwd, directory_stack[Len(directory_stack)])
    ELSE DirState("err", directory_stack, cwd)

\* the arm "popd" of execute_builtin_with_state
popd(directory_stack, cwd) ==
    IF directory_stack # <<>>
    THEN set_current_dir(popped(directory_stack), cwd,
                         directory_stack[Len(directory_stack)])
    ELSE DirState("err", directory_stack, cwd)

\* the arm "cd" of execute_line: Executor::builtin_cd changes the directory,
\* and the directory that was left is pushed
cd(directory_stack, cwd, args) ==
    IF args[1] \in Directories /\ args[1] # cwd
    THEN DirState("ok", Append(directory_stack, cwd), args[1])
    ELSE set_current_dir(directory_stack, cwd, args[1])

\* the call op with args, made in the state of segs and parsed, that has
\* led to the state after
DirCall(op, args, after) ==
    <<[op |-> op, args |-> args, before |-> segs, cwd_before |-> current_dir,
       r |-> after.r, cwd |-> after.cwd]>>

Pushd ==
    /\ Len(segs) < MaxDepth
    /\ \E args \in DirArgs :
         /\ segs' = pushd(segs, current_dir, args).directory_stack
         /\ parsed' = DirCall("pushd", args, pushd(segs, current_dir, args))
    /\ UNCHANGED session_vars

Popd ==
    /\ segs' = popd(segs, current_dir).directory_stack
    /\ parsed' = DirCall("popd", <<>>, popd(segs, current_dir))
    /\ UNCHANGED session_vars

\* cd with a directory
Cd ==
    /\ Len(segs) < MaxDepth
    /\ \E args \in DirArgs \ { <<>> } :
         /\ segs' = cd(segs, current_dir, args).directory_stack
         /\ parsed' = DirCall("cd", args, cd(segs, current_dir, args))
    /\ UNCHANGED session_vars

NextDirs == Pushd \/ Popd \/ Cd

SpecDirs == Init /\ [][NextDirs]_vars

(***************************************************************************)
(* Properties of the job table                                             *)
(***************************************************************************)
\* C1: add_job returns 1 on its first call and a strictly larger id on every
\* later call, whatever update_job_status and remove_job did in between; no
\* two jobs of the table share an id, so no id is handed out while a job
\* still holds it.
C1_AddJobIdsIncrease ==
    /\ returned # <<>> => returned[1] = 1
    /\ \A k, l \in 1..Len(returned) : k < l => returned[k] < returned[l]
    /\ \A i, j \in 1..Len(jobs) : i # j => jobs[i].id # jobs[j].id
    /\ \A i \in 1..Len(jobs) : \E k \in 1..Len(returned) : jobs[i].id = returned[k]

\* two jobs were added and the first was removed
C1_Witness == returned = <<1, 2>> /\ Len(jobs) = 1 /\ jobs[1].id = 2

\* the first job of the table, in insertion order, whose status is Running
FirstRunning(js) ==
    IF \E i \in 1..Len(js) : js[i].status = Running
    THEN <<js[CHOOSE i \in 1..Len(js) :
                /\ js[i].status = Running
                /\ \A h \in 1..(i - 1) : js[h].status # Running]>>
    ELSE <<>>

\* C2: get_job("+") and get_job("%+") return the first job in insertion order
\* whose status is Running, skipping the Done and the Stopped jobs, and no job
\* when none is Running.  (fg, bg and wait leave the table as get_job saw it.)
C2_CurrentJobIsFirstRunning ==
    (got # <<>> /\ got[1].spec \in {<<"+">>, <<"%", "+">>} /\ got[1].by # "kill")
        => got[1].job = FirstRunning(jobs)

\* J1 is Done, J2 is Running, and get_job("%+") returned J2
C2_Witness ==
    /\ got # <<>>
    /\ got[1].spec = <<"%", "+">>
    /\ Len(jobs) = 2
    /\ jobs[1].status = Done(<<0>>)
    /\ jobs[2].status = Running
    /\ got[1].job = <<jobs[2]>>

\* a step in which the loop of execute_line executes jobs, fg, bg or wait
QueryStep ==
    /\ AtCommand
    /\ command.name \in {W_jobs, W_fg, W_bg, W_wait}
    /\ stack' \in {Ran("ok"), Ran("err")}

\* C3: when the process of a job recorded as Running has exited, the next
\* jobs, fg, bg or wait observes it: the job is Done after the builtin.
C3_QueryObservesExit ==
    [][QueryStep =>
         \A i \in 1..Len(jobs) :
            (jobs[i].status = Running /\ procs[jobs[i].pid] = "zombie")
                => (i <= Len(jobs') /\ jobs'[i].status[1] = "Done")]_vars

\* What the builtins do: jobs, fg, bg and wait ask no process for its state;
\* they leave every job as recorded, bg alone turning a Stopped job to
\* Running, so a Running job whose process has exited stays Running.
QueryLeavesStatus ==
    [][QueryStep =>
         /\ Len(jobs') = Len(jobs)
         /\ \A i \in 1..Len(jobs) :
               \/ jobs'[i] = jobs[i]
               \/ /\ command.name = W_bg
                  /\ jobs[i].status = Stopped
                  /\ jobs'[i] = [jobs[i] EXCEPT !.status = Running]]_vars

\* fg, bg or wait has just found a job that is Running and whose process has
\* exited, and the job is still in the table as it was
QueryOfExitedJob ==
    /\ got # <<>>
    /\ got[1].by \in {"fg", "bg", "wait"}
    /\ got[1].job # <<>>
    /\ got[1].job[1].status = Running
    /\ procs[got[1].job[1].pid] = "zombie"
    /\ \E i \in 1..Len(jobs) : jobs[i] = got[1].job[1]

\* a step in which the loop of execute_line executes kill %n, the table
\* holding a job n
KillStep(n) ==
    /\ AtCommand
    /\ command.name = W_kill
    /\ command.args = << <<"%">> \o to_string(n) >>
    /\ \E i \in 1..Len(jobs) : jobs[i].id = n
    /\ stack' \in {Ran("ok"), Ran("err")}

\* the table without the job n, every other job as it was
Without(js, n) == LET other(j) == j.id # n IN SelectSeq(js, other)

\* C4: kill %N, for a job N of the table, removes exactly that job: no job N
\* is left and every other job keeps its id, pid, command and status, also
\* when another job has the pid of job N.
C4_KillRemovesExactlyTheJob ==
    [][\A n \in 1..MaxJobs : KillStep(n) => jobs' = Without(jobs, n)]_vars

(***************************************************************************)
(* Properties of the execution of lines and files                          *)
(***************************************************************************)
\* what the last return of execute_line gave its caller
Delivered ==
    IF stack = <<>> THEN status
    ELSE Head(stack).ran[Len(Head(stack).ran)][2]

\* C5: the commands of a line are executed one at a time from left to right;
\* once a command has returned an error no later command of the line is
\* executed, and the line returns the error (Ok when every command was
\* executed without one).
C5_StopAtFirstError ==
    [][(mode = "run" /\ stack # <<>> /\ Head(stack).t = "line") =>
         LET f == Head(stack)
             failed == \E k \in 1..Len(f.ran) : f.ran[k][2] = "err"
         IN  /\ (Len(stack') >= Len(stack) /\ stack' # stack) =>
                   /\ ~failed
                   /\ Len(stack') = Len(stack) =>
                         \E res \in {"ok", "err"} :
                            Head(stack').ran =
                                Append(f.ran, <<Len(f.ran) + 1, res>>)
             /\ Len(stack') < Len(stack) =>
                   IF failed THEN Delivered' = "err"
                   ELSE Len(f.ran) = Len(f.cmds) /\ Delivered' = "ok"]_vars

\* of the three commands of a line the first has succeeded, the second has
\* failed, and the third is not executed
C5_Witness ==
    /\ stack # <<>>
    /\ Head(stack).t = "line"
    /\ Len(Head(stack).cmds) = 3
    /\ Head(stack).ran = << <<1, "ok">>, <<2, "err">> >>

\* a line that is not blank and whose first character after the leading
\* white space is not #
NonBlankNonComment(l) ==
    \E k \in 1..Len(l) :
       /\ ~is_whitespace(l[k])
       /\ l[k] # "#"
       /\ \A h \in 1..(k - 1) : is_whitespace(l[h])

\* the indices of these lines from line i on, in file order
RECURSIVE ExecutableIndices(_, _)
ExecutableIndices(lines, i) ==
    IF i > Len(lines) THEN <<>>
    ELSE (IF NonBlankNonComment(lines[i]) THEN <<i>> ELSE <<>>)
         \o ExecutableIndices(lines, i + 1)

Indices(ran) == [k \in 1..Len(ran) |-> ran[k][1]]

C7_ExitCodeOfLastLine ==
    [][(/\ mode = "run" /\ stack # <<>> /\ Head(stack).t = "script"
        /\ Len(stack') < Len(stack)
        /\ Head(stack).ran # <<>>) =>
         (Head(stack).ran[Len(Head(stack).ran)][2] = "ok"
            <=> last_exit_code' = 0)]_vars

\* C8: the session loop does not end because a line failed: it ends only
\* when readline delivers no more input or on an explicit exit.
C8_LoopEndsOnlyOnEofOrExit ==
    mode = "ended" => cause \in {"eof", "read_error", "exit"}

\* the number of the characters c of s
CountOf(s, c) == Cardinality({k \in 1..Len(s) : s[k] = c})

\* a line of one kind of quote, without backslash, with an odd number of them
UnterminatedQuote(line) ==
    /\ CountOf(line, "\\") = 0
    /\ \/ CountOf(line, "\"") = 0 /\ CountOf(line, "'") % 2 = 1
       \/ CountOf(line, "'") = 0 /\ CountOf(line, "\"") % 2 = 1

\* the expansion of a token of some segment of the line fails
ExpansionFails(line, sh) ==
    /\ split_by_pipes(line).k = "ok"
    /\ \E i \in 1..Len(split_by_pipes(line).v) :
          tokenize(trim(split_by_pipes(line).v[i]), Cx(sh)).k = "err"

\* for the lines of the model, each with the answer of the environment:
\* whether the line has an unterminated quote or a failing expansion
BadLines ==
    [sh \in BOOLEAN |->
       [l \in AllLines |-> UnterminatedQuote(l) \/ ExpansionFails(l, sh)]]

\* C9: a line with an unterminated quote, or with a segment whose expansion
\* fails, is a parse error of the whole line: execute_line never enters the
\* loop over the commands of such a line, it returns the error to its caller
\* (the session loop, execute_script or source), so that no command of the
\* line is executed, those of the segments before the failing one included,
\* and the job table is as it was.
C9_ParseErrorExecutesNothing ==
    [][/\ (/\ Len(stack') > Len(stack)
           /\ Head(stack').t = "line") =>
             ~BadLines[Head(stack').sh][Head(stack').line]
       /\ (mode = "line" /\ BadLines[cur[1].sh][trim(cur[1].line)]) =>
             /\ stack' = <<>> /\ mode' = "read" /\ status' = "err"
             /\ UNCHANGED <<jobs, next_id, returned, procs>>
       /\ (/\ mode = "run" /\ stack # <<>>
           /\ Head(stack).t \in {"script", "source"}
           /\ Len(stack') >= Len(stack) /\ stack' # stack
           /\ \A sh \in BOOLEAN :
                BadLines[sh][trim(Files[Head(stack).file][
                                   next_line(Files[Head(stack).file],
                                             last_index(Head(stack).ran))])]) =>
             /\ stack' = <<caller_resume(Head(stack), "err", last_exit_code)>>
                         \o Tail(stack)
             /\ UNCHANGED <<jobs, next_id, returned, procs>>]_vars

\* source has given execute_line the first line of s, whose quote is not
\* closed: the line has failed and none of its commands was started
C9_Witness ==
    /\ stack # <<>>
    /\ Head(stack).t = "source"
    /\ Head(stack).file = <<"s">>
    /\ Files[<<"s">>][1] = L_unclosed
    /\ BadLines[TRUE][L_unclosed]
    /\ Head(stack).ran = << <<1, "err">> >>

(***************************************************************************)
(* Properties of the parser                                                *)
(***************************************************************************)
\* after tokenizing, expansion and the removal of the redirections the
\* segment has a token left
YieldsCommand(seg) ==
    /\ parse_with_redirection(trim(seg), Cx(TRUE)).k = "ok"
    /\ parse_with_redirection(trim(seg), Cx(TRUE)).v.result_tokens # <<>>

\* n commands, the first without predecessor, each later one with the command
\* before it as its stdin link
Chained(cmds, n) ==
    /\ Len(cmds) = n
    /\ cmds[1].stdin = <<>>
    /\ \A i \in 2..n : cmds[i].stdin = <<cmds[i - 1]>>

\* C10: a line of n >= 1 non-empty segments separated by unquoted pipes is
\* parsed to exactly n commands in the order of the segments, the first
\* without stdin link and each later one linked to the command of the segment
\* to its left.
C10_OneCommandPerSegment ==
    parsed # <<>> => (parsed[1].k = "ok" /\ Chained(parsed[1].v, Len(segs)))

\* Where it holds: when every segment still has a token after tokenizing,
\* expansion and the removal of its redirections; the name of command i is
\* then the first token of segment i.
OneCommandPerYieldingSegment ==
    (parsed # <<>> /\ \A i \in 1..Len(segs) : YieldsCommand(segs[i])) =>
        /\ parsed[1].k = "ok"
        /\ Chained(parsed[1].v, Len(segs))
        /\ \A i \in 1..Len(segs) :
              parsed[1].v[i].name =
                 parse_with_redirection(trim(segs[i]), Cx(TRUE)).v.result_tokens[1]

\* three segments, one of them with a quoted pipe, parsed to three commands
ThreeYieldingSegments ==
    /\ parsed # <<>>
    /\ Len(segs) = 3
    /\ \A i \in 1..3 : YieldsCommand(segs[i])
    /\ \E i \in 1..3 : contains(segs[i], <<"|">>)
    /\ parsed[1].k = "ok"
    /\ Len(parsed[1].v) = 3
    /\ parsed[1].v[3].stdin = <<parsed[1].v[2]>>

(***************************************************************************)
(* Properties of the tokenizer                                             *)
(***************************************************************************)
\* the text the tokenizer was given
Segment == concat(segs)

PlainChars == {"a", "b", " "}

\* the text is content between two quotes q, the content made of plain
\* characters and spaces
Quoted(text, q) ==
    /\ Len(text) >= 2
    /\ text[1] = q
    /\ text[Len(text)] = q
    /\ \A i \in 2..(Len(text) - 1) : text[i] \in PlainChars

\* C11: a word between matching double quotes or matching single quotes
\* becomes exactly one argument, the quoted content without the quotes and
\* with its spaces, for every content of plain characters and spaces, the
\* empty content included.
C11_QuotedWordIsOneArgument ==
    (parsed # <<>> /\ (Quoted(Segment, "'") \/ Quoted(Segment, "\""))) =>
        /\ parsed[1].k = "ok"
        /\ parsed[1].v = <<SubSeq(Segment, 2, Len(Segment) - 1)>>

\* Where it holds: for every content that is not empty.
QuotedWordIsOneArgument ==
    (/\ parsed # <<>> /\ Len(Segment) > 2
     /\ (Quoted(Segment, "'") \/ Quoted(Segment, "\""))) =>
        /\ parsed[1].k = "ok"
        /\ parsed[1].v = <<SubSeq(Segment, 2, Len(Segment) - 1)>>

\* the words of s, in order: the longest runs of characters outside seps
RECURSIVE Words(_, _, _)
Words(s, seps, word) ==
    IF s = <<>> THEN (IF word = <<>> THEN <<>> ELSE <<word>>)
    ELSE IF Head(s) \in seps
    THEN (IF word = <<>> THEN <<>> ELSE <<word>>) \o Words(Tail(s), seps, <<>>)
    ELSE Words(Tail(s), seps, Append(word, Head(s)))

WhiteSpace == {" ", "\t", "\n", "\r"}

NoMetacharacter(s) == \A i \in 1..Len(s) : s[i] \in {"a", "b"} \cup WhiteSpace

SingleQuotedEscape(text) ==
    /\ Len(text) >= 4
    /\ text[1] = "'"
    /\ text[Len(text)] = "'"
    /\ \E i \in 2..(Len(text) - 2) :
          /\ text[i] = "\\" /\ text[i + 1] = "'"
          /\ \A j \in (2..(Len(text) - 1)) \ {i, i + 1} : text[j] \in PlainChars

RECURSIVE Unescaped(_)
Unescaped(s) ==
    IF s = <<>> THEN <<>>
    ELSE IF Len(s) >= 2 /\ s[1] = "\\" /\ s[2] = "'"
    THEN <<"'">> \o Unescaped(SubSeq(s, 3, Len(s)))
    ELSE <<Head(s)>> \o Unescaped(Tail(s))

\* C13: inside single quotes backslash + single quote is the only special
\* sequence: it stands for a single quote and does not end the region; every
\* other character, a backslash included, is kept as it is.
C13_OnlyEscapedQuoteIsSpecial ==
    (parsed # <<>> /\ SingleQuotedEscape(Segment)) =>
        /\ parsed[1].k = "ok"
        /\ parsed[1].v = <<Unescaped(SubSeq(Segment, 2, Len(Segment) - 1))>>

(***************************************************************************)
(* Properties of the expansion                                             *)
(***************************************************************************)
\* the token that was chosen
Token == segs[1]

\* the call op was made on the token t
Called(op, t) == segs # <<>> /\ parsed # <<>> /\ parsed[1].op = op /\ Token = t

\* the value of the variable n in the context of the call, <<>> when unset
ValueIn(cx, n) == IF n \in DOMAIN cx.env THEN cx.env[n] ELSE <<>>

\* C14: for every environment variable NAME and every value v of it, parsing
\* `echo $NAME` yields exactly one argument, equal to v; an unset variable
\* yields one empty argument.
C14_VariableIsItsValue ==
    \A n \in Names :
        Called("parse", <<"$">> \o n) =>
            /\ parsed[1].r.k = "ok"
            /\ Len(parsed[1].r.v) = 1
            /\ parsed[1].r.v[1].args = <<ValueIn(parsed[1].cx, n)>>

\* C15: $? is replaced by the decimal string of the last exit code of the
\* session, the same way as $# is replaced by the number of script
\* arguments.
C15_LastExitCodeIsExpanded ==
    /\ Called("expand_token", <<"$", "#">>) =>
          parsed[1].r = Ok(to_string(Len(parsed[1].cx.script_args)))
    /\ Called("expand_token", <<"$", "?">>) =>
          parsed[1].r = Ok(to_string(parsed[1].cx.last_exit_code))

\* C16: ${VAR:-default} expands to the value of VAR when VAR is set and to
\* the text default when it is unset; the expansion completes with a result
\* in both cases.
C16_DefaultWhenUnset ==
    \A n \in Names :
        Called("expand_token", BracedToken(n, <<":", "-", "d">>)) =>
            /\ parsed[1].r.k = "ok"
            /\ n \notin DOMAIN parsed[1].cx.env => parsed[1].r.v = <<"d">>
            /\ (n \in DOMAIN parsed[1].cx.env /\ parsed[1].cx.env[n] = <<"v">>)
                  => parsed[1].r.v = <<"v">>

\* C17: ${VAR?msg} with VAR unset fails with an error, and with VAR set
\* expands to the value of VAR.
C17_ErrorWhenUnset ==
    \A n \in Names :
        Called("expand_token", BracedToken(n, <<"?", "m">>)) =>
            /\ n \notin DOMAIN parsed[1].cx.env => parsed[1].r.k = "err"
            /\ (n \in DOMAIN parsed[1].cx.env /\ parsed[1].cx.env[n] = <<"v">>)
                  => parsed[1].r = Ok(<<"v">>)

\* C18: $((E)) is replaced by the decimal value of E, for every E the
\* evaluator accepts: the command substitution leaves it to the arithmetic
\* expansion.
C18_ArithmeticIsEvaluated ==
    \A e \in ArithExprs :
        (/\ Called("expand_token", ArithToken(e))
         /\ evaluate_arithmetic(e, parsed[1].cx).k = "ok") =>
            parsed[1].r = Ok(to_string(evaluate_arithmetic(e, parsed[1].cx).v))

\* P a1 S, ..., P an S
Affixed(p, items, sfx) == [i \in 1..Len(items) |-> p \o items[i] \o sfx]

\* C19: a token P{a1,...,an}S with a single brace group expands to exactly
\* the n strings P ai S, in the order of the alternatives, joined by single
\* spaces.
C19_BraceGroupAlternatives ==
    \A p \in Affixes, l \in ItemLists, sfx \in Affixes :
        Called("expand_brace", BraceToken(p, l, sfx)) =>
            parsed[1].r = Ok(join(Affixed(p, l, sfx), <<" ">>))

\* the numbers from s to e_, both included, in steps of 1
RECURSIVE Inclusive(_, _)
Inclusive(s, e_) ==
    IF s = e_ THEN <<to_string(s)>>
    ELSE <<to_string(s)>> \o Inclusive(IF s < e_ THEN s + 1 ELSE s - 1, e_)

\* C20: on a token {s..e} with integers s and e the brace expansion
\* terminates and yields the numbers from s to e, both included, ascending
\* or descending by 1, joined by single spaces.
C20_RangeIsInclusive ==
    \A e \in RangeEnds :
        Called("expand_brace", RangeToken(e)) =>
            parsed[1].r = Ok(join(Inclusive(e[1], e[2]), <<" ">>))

\* no $, no backtick, no {, no ~ and no glob character
FullyExpanded(t) ==
    \A i \in 1..Len(t) : t[i] \notin {"$", BACKTICK, "{", "~", "*", "?", "["}

\* C21: for every token without $, backtick, {, ~ and glob character,
\* expand_token returns the token unchanged, and so does expanding the result
\* again.
C21_ExpansionIsIdempotent ==
    FullyExpanded(Segment) =>
        \A k \in 1..Len(parsed) : parsed[k].r = Ok(Segment)

\* the token }a\ has been expanded twice
C21_Witness ==
    /\ Segment = <<"}", "a", "\\">>
    /\ Len(parsed) = 2
    /\ parsed[2].r = Ok(Segment)

(***************************************************************************)
(* Properties of the executor                                              *)
(***************************************************************************)
\* the command that was executed, its world and its outcome
Executed == segs # <<>> /\ parsed # <<>>

\* C22: whenever execute returns success for a command whose stdout is
\* Output(path), the file path exists afterwards and its content is exactly
\* what the command wrote to its standard output; nothing of it is written
\* to the standard output of the shell.
C22_OutputFileHoldsStdout ==
    (/\ Executed
     /\ segs[1].stdout # <<>>
     /\ segs[1].stdout[1].t = "Output"
     /\ segs[1].stdout[1].file = F
     /\ segs[1].stderr = <<>>
     /\ parsed[1].r.r = "ok") =>
        /\ F \in DOMAIN parsed[1].r.files
        /\ parsed[1].r.console = <<>>
        /\ segs[1].name = W_echo =>
              parsed[1].r.files[F] = builtin_echo(segs[1])
        /\ segs[1].name = W_cat => parsed[1].r.files[F] = parsed[1].w.out

\* where C22 holds: for an external command with stdout Output(f) and no
\* redirection of the standard error, success leaves f with what the child
\* wrote
ExternalOutputFileHoldsStdout ==
    (/\ Executed
     /\ segs[1].name = W_cat
     /\ segs[1].stdout = <<Redirection("Output", 0, F)>>
     /\ segs[1].stderr = <<>>
     /\ parsed[1].r.r = "ok") =>
        /\ F \in DOMAIN parsed[1].r.files
        /\ parsed[1].r.files[F] = parsed[1].w.out
        /\ parsed[1].r.console = <<>>

\* an external command with a piped predecessor has been started
PipedExternal ==
    /\ Executed
    /\ segs[1].name = W_cat
    /\ segs[1].stdin # <<>>
    /\ parsed[1].r.stdin # <<>>

\* C25: for an external command with both a piped predecessor and a
\* stdin_file, the standard input of the child is wired from the
\* redirection (the file, the here-string, the process substitution, or
\* the here-document, which is read as empty) and never from the pipe; the
\* pipe is used only when stdin_file is absent.
C25_RedirectionBeforePipe ==
    PipedExternal =>
        /\ segs[1].stdin_file = <<>> <=> parsed[1].r.stdin[1] = Piped
        /\ segs[1].stdin_file # <<>> =>
              parsed[1].r.stdin[1].to \in {"file", "temp", "null"}

\* where C25 holds: with a stdin_file of the kind Input the standard input
\* is the file, the temporary file or empty, and without stdin_file it is
\* the pipe
InputRedirectionBeforePipe ==
    PipedExternal =>
        /\ segs[1].stdin_file = <<>> <=> parsed[1].r.stdin[1] = Piped
        /\ (segs[1].stdin_file # <<>> /\ segs[1].stdin_file[1].t = "Input") =>
              parsed[1].r.stdin[1].to \in {"file", "temp", "null"}
        /\ segs[1].stdin_file = <<Redirection("Input", 0, G)>> =>
              parsed[1].r.stdin[1] = FileIn(G, parsed[1].w.files[G])

(***************************************************************************)
(* Properties of the redirection parser                                    *)
(***************************************************************************)
\* the tokens that are neither an operator nor the target of one: an
\* operator takes the token after it, n>&m takes none
RECURSIVE CleanArgs(_)
CleanArgs(tokens) ==
    IF tokens = <<>> THEN <<>>
    ELSE IF Head(tokens) \in TargetOps \cup FdOps
    THEN CleanArgs(SubSeq(tokens, 3, Len(tokens)))
    ELSE IF Head(tokens) \in DupTokens THEN CleanArgs(Tail(tokens))
    ELSE <<Head(tokens)>> \o CleanArgs(Tail(tokens))

\* the segment has no n>&m
NoDup == \A i \in 1..Len(segs) : segs[i] \notin DupTokens

\* C23: clean_args are exactly the tokens of the segment that are neither a
\* redirection operator nor the token taken as the target of one, in their
\* order; no operator remains, also when it is the last token.
C23_CleanArgsWithoutOperators ==
    (parsed # <<>> /\ NoDup) =>
        /\ parsed[1].k = "ok"
        /\ parsed[1].v.result_tokens = CleanArgs(segs)

\* where C23 holds: when the last token is neither n> nor n<
CleanArgsUnlessFdOperatorLast ==
    (parsed # <<>> /\ NoDup /\ segs # <<>> /\ segs[Len(segs)] \notin FdOps) =>
        /\ parsed[1].k = "ok"
        /\ parsed[1].v.result_tokens = CleanArgs(segs)

\* C24: n>&m takes only itself: the token after it stays in the argument
\* list, wherever n>&m stands.
C24_DuplicationTakesOnlyItself ==
    \A i \in 1..(Len(segs) - 1) :
        (/\ parsed # <<>>
         /\ segs[i] \in DupTokens
         /\ \A j \in 1..(i - 1) : segs[j] \in { <<"a">>, <<"f">> }
         /\ \A j \in (i + 1)..Len(segs) : segs[j] \in { <<"a">>, <<"f">> }) =>
            /\ parsed[1].k = "ok"
            /\ parsed[1].v.result_tokens
                  = SubSeq(segs, 1, i - 1) \o SubSeq(segs, i + 1, Len(segs))

\* where C24 holds: n>&m as the last token takes only itself
DuplicationLastTakesOnlyItself ==
    (/\ parsed # <<>>
     /\ segs # <<>>
     /\ segs[Len(segs)] \in DupTokens
     /\ \A j \in 1..(Len(segs) - 1) : segs[j] \in { <<"a">>, <<"f">> }) =>
        /\ parsed[1].k = "ok"
        /\ parsed[1].v.result_tokens = SubSeq(segs, 1, Len(segs) - 1)

(***************************************************************************)
(* Properties of the shared job manager                                    *)
(***************************************************************************)
\* the ids of the jobs of the table
IdsOf(js) == { js[i].id : i \in 1..Len(js) }

\* remove_job(id) has taken effect
Removed(id) ==
    id = 1 /\ \E k \in 1..Len(segs) :
                 segs[k].op = "remove_job" /\ segs[k].pc \in {"acted", "returned"}

\* the table states between two operations: the empty table of new() and
\* the table after each change
TableStates == { <<>> } \cup { parsed[i] : i \in 1..Len(parsed) }

\* C26: when threads that share one JobManager call its operations in any
\* interleaving, no two add_job calls return the same id, no added job is
\* lost, and every list_jobs snapshot is a table state that existed between
\* two operations.
C26_OperationsAreAtomic ==
    /\ \A i, j \in 1..Len(returned) : i # j => returned[i] # returned[j]
    /\ \A i \in 1..Len(returned) :
          returned[i] \in IdsOf(jobs) \/ Removed(returned[i])
    /\ \A i, j \in 1..Len(jobs) : i # j => jobs[i].id # jobs[j].id
    /\ \A k \in 1..Len(segs) :
          (segs[k].op = "list_jobs" /\ segs[k].pc \in {"acted", "returned"}) =>
              segs[k].result \in TableStates

\* two threads have added a job each and a third has listed the two jobs
C26_Witness ==
    /\ Len(segs) = 3
    /\ returned = <<1, 2>>
    /\ \E k \in 1..Len(segs) :
          /\ segs[k].op = "list_jobs"
          /\ segs[k].pc = "returned"
          /\ Len(segs[k].result) = 2

(***************************************************************************)
(* Properties of the arithmetic evaluator                                  *)
(***************************************************************************)
\* the operators of the chain belong to the class
ChainOf(chain, class) ==
    \A i \in 1..Len(chain) : i % 2 = 0 => chain[i] \in class

\* the value of the chain evaluated from left to right: acc is the value of
\* the part before position i
RECURSIVE LeftToRight(_, _, _)
LeftToRight(chain, i, acc) ==
    IF acc.k # "ok" \/ i > Len(chain) THEN acc
    ELSE LeftToRight(chain, i + 2,
                     apply_binary(chain[i], acc.v,
                                  parse_signed(chain[i + 1])[1], Cx(TRUE)))

ValueOf(chain) == LeftToRight(chain, 2, Ok(parse_signed(chain[1])[1]))

\* the two results are the same
SameResult(r, e) == r.k = e.k /\ (r.k = "ok" => r.v = e.v)

\* C27: for every chain of non-negative literals joined by binary operators
\* of one class, evaluate_arithmetic returns the value of the chain
\* evaluated from left to right.
C27_ChainsEvaluateLeftToRight ==
    \A class \in OperatorClasses :
        (parsed # <<>> /\ ChainOf(segs, class)) =>
            SameResult(parsed[1], ValueOf(segs))

\* where C27 holds: the chains of + and -
AdditiveChainsEvaluateLeftToRight ==
    (parsed # <<>> /\ ChainOf(segs, { <<"+">>, <<"-">> })) =>
        SameResult(parsed[1], ValueOf(segs))

(***************************************************************************)
(* Properties of the brace expansion on unbalanced tokens                  *)
(***************************************************************************)
\* C28: whenever a token has an opening brace without a matching closing
\* brace, expand_brace returns the token unchanged, also when a complete
\* brace group stands before the unbalanced brace.
C28_UnbalancedBraceIsUnexpanded ==
    \A t \in UnbalancedTokens :
        Called("expand_brace", t) => parsed[1].r = Ok(t)

\* where C28 holds: the tokens without a complete group before the
\* unbalanced brace
UnbalancedBraceAloneIsUnexpanded ==
    \A t \in UnbalancedTokens :
        (Called("expand_brace", t) /\ ~contains(t, <<"}">>)) => parsed[1].r = Ok(t)

(***************************************************************************)
(* Properties of the parser on every line                                  *)
(***************************************************************************)
\* C29: parse_with_context returns a result, a command list or an error,
\* for every line: when a segment is empty or has no tokens, linking a
\* later command to its predecessor never indexes past the commands built
\* so far.
C29_ParseReturnsAResult ==
    parsed # <<>> => parsed[1].k \in {"ok", "err"}

\* where C29 holds: when every segment before the last yields a command
ParseReturnsAResultWhenSegmentsYield ==
    (parsed # <<>> /\ \A i \in 1..(Len(segs) - 1) : YieldsCommand(segs[i])) =>
        parsed[1].k \in {"ok", "err"}

(***************************************************************************)
(* Properties of the directory stack                                       *)
(***************************************************************************)
\* pushd without argument has returned Ok on a stack that was not empty
Swapped ==
    /\ parsed # <<>>
    /\ parsed[1].op = "pushd"
    /\ parsed[1].args = <<>>
    /\ parsed[1].before # <<>>
    /\ parsed[1].r = "ok"

\* C30: pushd with no argument and a non-empty stack swaps the current
\* directory with the top of the stack: afterwards the current directory is
\* the former top, the new top is the former current directory, and the
\* stack has the same depth as before.
C30_PushdSwaps ==
    Swapped =>
        /\ parsed[1].cwd = parsed[1].before[Len(parsed[1].before)]
        /\ segs[Len(segs)] = parsed[1].cwd_before
        /\ Len(segs) = Len(parsed[1].before)

\* where C30 holds: the current directory and the top are swapped
PushdSwapsTop ==
    Swapped =>
        /\ parsed[1].cwd = parsed[1].before[Len(parsed[1].before)]
        /\ segs[Len(segs)] = parsed[1].cwd_before

=============================================================================
